---- MODULE Spec2Model ----
(***************************************************************************)
(* A model of the LatBo/LUMA lattice-Boltzmann multi-grid kernel           *)
(* (GridObj_ops_lbm.cpp) and of the outer time loop (main_lbm.cpp).        *)
(*                                                                         *)
(* Build modelled: dims == 2 (D2Q9), serial (BUILD_FOR_MPI undefined),     *)
(* BGK collision (USE_MRT undefined), no LBM_boundary pass enabled         *)
(* (no WALLS_ON / SOLID_BLOCK_ON / OUTLET_ON / BFL_ON / regularised or     *)
(* Zou-He inlet).  The switches IBM_ON, PERIODIC_BOUNDARIES,               *)
(* INLET_DO_NOTHING and GRAVITY_ON are fields of the record cfg, fixed     *)
(* in the initial state.                                                   *)
(*                                                                         *)
(* Doubles are modelled as elements of a prime field, in which +, -, * and *)
(* / are exact and obey the identities of real arithmetic; a non-finite    *)
(* double (the result of a division by zero) is the value NaN.  Rounding   *)
(* and the order of the reals are not modelled.                            *)
(***************************************************************************)
EXTENDS Integers, Sequences, FiniteSets, TLC

VARIABLES
    cfg,        \* build switches and run parameters, fixed after Init
    grids,      \* grid id -> the GridObj's fields
    stack,      \* call stack of LBM_multi activations, innermost last
    mainpc,     \* position of main(): the do-while time loop
    tickstart,  \* history: the grids as they were when the current external tick began
    last,       \* history: the last operation on a grid and that grid before it
    log         \* history: kernel events of the current external tick

vars == <<cfg, grids, stack, mainpc, tickstart, last, log>>

----------------------------------------------------------------------------
(* Arithmetic standing for double arithmetic: the prime field of order     *)
(* FieldOrder.  A value is a residue 0 .. FieldOrder-1; NaN is the result  *)
(* of a division by zero and of any operation on NaN.                      *)

\* the largest prime whose square fits the checker's integers
FieldOrder == 46337

NaN == FieldOrder

IsFinite(x) == x # NaN

\* the integer n as a value
R(n) == n % FieldOrder

Zero == R(0)

One == R(1)

RAdd(x, y) == IF IsFinite(x) /\ IsFinite(y) THEN (x + y) % FieldOrder ELSE NaN

RNeg(x) == IF IsFinite(x) THEN (FieldOrder - x) % FieldOrder ELSE NaN

RSub(x, y) == RAdd(x, RNeg(y))

RMul(x, y) == IF IsFinite(x) /\ IsFinite(y) THEN (x * y) % FieldOrder ELSE NaN

\* b^e in the field
RECURSIVE PowMod(_, _)
PowMod(b, e) ==
    IF e = 0 THEN 1
    ELSE CHOOSE r \in {IF e % 2 = 1 THEN (((h * h) % FieldOrder) * b) % FieldOrder
                                     ELSE (h * h) % FieldOrder :
                           h \in {PowMod(b, e \div 2)}} : TRUE

RDiv(x, y) ==
    IF IsFinite(x) /\ IsFinite(y) /\ y # 0
    THEN (x * PowMod(y, FieldOrder - 2)) % FieldOrder
    ELSE NaN

\* the fraction n/d as a value
Q(n, d) == RDiv(R(n), R(d))

RECURSIVE RSum(_, _)
RSum(F, S) ==
    CHOOSE r \in {IF T = {} THEN Zero
                  ELSE LET e == CHOOSE x \in T : TRUE
                       IN  RAdd(Fn[e], RSum(Fn, T \ {e})) :
                  <<Fn, T>> \in {<<F, S>>}} : TRUE

----------------------------------------------------------------------------
(* The velocity set (definitions.h / globalvars.h, D2Q9 build).            *)

dims == 2

nVels == 9

Vels == 0 .. (nVels - 1)

Dims == 0 .. (dims - 1)

\* c[d][v]: lattice velocity components, rest particle last
c == << <<1, -1, 0, 0, 1, -1, 1, -1, 0>>,
        <<0, 0, 1, -1, 1, -1, -1, 1, 0>>,
        <<0, 0, 0, 0, 0, 0, 0, 0, 0>> >>

cx(v) == c[1][v + 1]

cy(v) == c[2][v + 1]

\* w[v]: lattice weights
w(v) == IF v = nVels - 1 THEN Q(4, 9)
        ELSE IF v < 4 THEN Q(1, 9) ELSE Q(1, 36)

\* cs^2 = 1/3
cs2 == Q(1, 3)

\* GridUtils::getOpposite: directions are stored in opposite pairs
getOpposite(v) ==
    IF v = nVels - 1 THEN v
    ELSE IF (v + 1) % 2 = 0 THEN v - 1 ELSE v + 1

----------------------------------------------------------------------------
(* Site labels (LatTyp).                                                   *)

Solid == 0

Fluid == 1

CoveredByFiner == 2

TransitionReceiveFromFiner == 3

TransitionToCoarser == 4

SolidVariant == 5

DoNothingInlet == 7

SiteTypes == {Solid, Fluid, CoveredByFiner, TransitionReceiveFromFiner,
              TransitionToCoarser, SolidVariant, DoNothingInlet}

Cells(G) == (0 .. (G.N_lim - 1)) \X (0 .. (G.M_lim - 1))

Slots(G) == Cells(G) \X Vels

----------------------------------------------------------------------------
(* GridObj::LBM_stream.                                                    *)

\* position of (site, direction) in the i, j, k, v loop nest
LoopOrder(G, x, v) == (x[1] * G.M_lim + x[2]) * nVels + v

OffGrid(G, d) ==
    (d[1] >= G.N_lim \/ d[1] < 0) \/ (d[2] >= G.M_lim \/ d[2] < 0)

\* variant: a population that leaves the lattice re-enters at the site it left
PeriodicDestSameSite(G, x, v) == <<x[1], x[2]>>

PeriodicDest(G, x, v) ==
    <<(x[1] + cx(v) + G.N_lim) % G.N_lim, (x[2] + cy(v) + G.M_lim) % G.M_lim>>

\* variant: the wrap is applied on every level but the coarsest
PeriodicOnFine(G, x, v) ==
    /\ cfg.PERIODIC_BOUNDARIES
    /\ G.level # 0
    /\ G.LatTyp[x] = Fluid
    /\ G.LatTyp[PeriodicDest(G, x, v)] = Fluid

\* Only apply periodic BCs on coarsest level and if stream is Coarse --> Coarse
PeriodicAllowed(G, x, v) ==
    /\ cfg.PERIODIC_BOUNDARIES
    /\ G.level = 0
    /\ G.LatTyp[x] = Fluid
    /\ G.LatTyp[PeriodicDest(G, x, v)] = Fluid

\* variant: the excluded pair is Coarse --> Coarse
DestExcludedFluid(G, x, dest) ==
    \/ G.LatTyp[x] = Fluid /\ G.LatTyp[dest] = Fluid
    \/ cfg.INLET_DO_NOTHING /\ G.LatTyp[dest] = DoNothingInlet

\* variant: only the TL2lower pair is excluded, a do-nothing inlet is streamed into
DestExcludedOnlyToCoarser(G, x, dest) ==
    G.LatTyp[x] = TransitionToCoarser /\ G.LatTyp[dest] = TransitionToCoarser

\* TL2lower --> TL2lower, or any --> do-nothing inlet
DestExcluded(G, x, dest) ==
    \/ G.LatTyp[x] = TransitionToCoarser /\ G.LatTyp[dest] = TransitionToCoarser
    \/ cfg.INLET_DO_NOTHING /\ G.LatTyp[dest] = DoNothingInlet

\* variant: off the grid, the outgoing value is retained instead of the incoming one
StreamWriteRetainsOutgoing(G, x, v) ==
    LET dest == <<x[1] + cx(v), x[2] + cy(v)>>
    IN  IF G.LatTyp[x] = CoveredByFiner THEN {}
        ELSE IF cfg.INLET_DO_NOTHING /\ G.LatTyp[x] = DoNothingInlet
             THEN {<<x, v, G.f[x][v]>>}
        ELSE IF OffGrid(G, dest)
             THEN IF PeriodicAllowed(G, x, v)
                  THEN {<<PeriodicDest(G, x, v), v, G.f[x][v]>>}
                  ELSE {<<x, v, G.f[x][v]>>}
        ELSE IF DestExcluded(G, x, dest) THEN {}
        ELSE {<<dest, v, G.f[x][v]>>}

\* variant: a CoveredByFiner source is excluded only when its destination is on the grid
StreamWriteExcludesOnGrid(G, x, v) ==
    LET dest == <<x[1] + cx(v), x[2] + cy(v)>>
        v_opp == getOpposite(v)
    IN  IF cfg.INLET_DO_NOTHING /\ G.LatTyp[x] = DoNothingInlet
             THEN {<<x, v, G.f[x][v]>>}
        ELSE IF OffGrid(G, dest)
             THEN IF PeriodicAllowed(G, x, v)
                  THEN {<<PeriodicDest(G, x, v), v, G.f[x][v]>>}
                  ELSE {<<x, v_opp, G.f[x][v_opp]>>}
        ELSE IF G.LatTyp[x] = CoveredByFiner THEN {}
        ELSE IF DestExcluded(G, x, dest) THEN {}
        ELSE {<<dest, v, G.f[x][v]>>}

\* The assignments to f_new made by the loop body for source x, direction v:
\* a set holding at most one <<site, direction, value>>.
StreamWrite(G, x, v) ==
    LET dest == <<x[1] + cx(v), x[2] + cy(v)>>
        v_opp == getOpposite(v)
    IN  IF G.LatTyp[x] = CoveredByFiner THEN {}
        ELSE IF cfg.INLET_DO_NOTHING /\ G.LatTyp[x] = DoNothingInlet
             THEN {<<x, v, G.f[x][v]>>}
        ELSE IF OffGrid(G, dest)
             THEN IF PeriodicAllowed(G, x, v)
                  THEN {<<PeriodicDest(G, x, v), v, G.f[x][v]>>}
                  ELSE {<<x, v_opp, G.f[x][v_opp]>>}
        ELSE IF DestExcluded(G, x, dest) THEN {}
        ELSE {<<dest, v, G.f[x][v]>>}

\* The only loop iterations that can assign slot (y, s): the site one step
\* upstream of y (wrapped), and y itself, in direction s; y in the opposite one.
Upstream(G, y, s) ==
    <<(y[1] - cx(s) + G.N_lim) % G.N_lim, (y[2] - cy(s) + G.M_lim) % G.M_lim>>

\* (source, direction) pairs whose assignment lands in slot (y, s)
Writers(G, y, s) ==
    {p \in {<<Upstream(G, y, s), s>>, <<y, s>>, <<y, getOpposite(s)>>} :
        \E wr \in StreamWrite(G, p[1], p[2]) : wr[1] = y /\ wr[2] = s}

\* variant: f_new starts as a copy of f
StreamSlotStartsFromF(G, y, s) ==
    LET W == Writers(G, y, s)
    IN  IF W = {} THEN G.f[y][s]
        ELSE LET p == CHOOSE q \in W :
                        \A r \in W : LoopOrder(G, r[1], r[2]) <= LoopOrder(G, q[1], q[2])
                 wr == CHOOSE z \in StreamWrite(G, p[1], p[2]) : TRUE
             IN  wr[3]

\* f_new starts as zeros; the last assignment in loop order stays
StreamSlot(G, y, s) ==
    LET W == Writers(G, y, s)
    IN  IF W = {} THEN Zero
        ELSE LET p == CHOOSE q \in W :
                        \A r \in W : LoopOrder(G, r[1], r[2]) <= LoopOrder(G, q[1], q[2])
                 wr == CHOOSE z \in StreamWrite(G, p[1], p[2]) : TRUE
             IN  wr[3]

LBM_stream(G) ==
    [G EXCEPT !.f = [y \in Cells(G) |-> [s \in Vels |-> StreamSlot(G, y, s)]]]

----------------------------------------------------------------------------
(* GridObj::LBM_forcegrid.                                                 *)

ZeroForce_i(G) == [x \in Cells(G) |-> [v \in Vels |-> Zero]]

ZeroForce_xyz(G) == [x \in Cells(G) |-> [d \in Dims |-> Zero]]

\* force_xyz after the optional gravity increment at site x
GravityForce(G, x) ==
    IF cfg.GRAVITY_ON
    THEN [G.force_xyz[x] EXCEPT ![cfg.grav_direction] =
              RAdd(@, RMul(G.rho[x], cfg.grav_force))]
    ELSE G.force_xyz[x]

cdir(d, v) == c[d + 1][v + 1]

\* beta_v = (1/cs^2) * (c_v . u)
Beta(G, x, v) ==
    RDiv(RAdd(RMul(R(cx(v)), G.u[x][0]), RMul(R(cy(v)), G.u[x][1])), cs2)

\* lambda_v = (1 - 0.5 * omega) * (w_v / cs^2)
Lambda(G, v) ==
    RMul(RSub(One, RMul(Q(1, 2), G.omega)), RDiv(w(v), cs2))

\* force_i(x, v) after the update: the old value is accumulated into, then scaled
LatticeForce(G, x, v) ==
    LET F == GravityForce(G, x)
        term(d) == RMul(F[d], RSub(RMul(R(cdir(d, v)), RAdd(One, Beta(G, x, v))), G.u[x][d]))
    IN  IF G.LatTyp[x] # Solid
        THEN RMul(RAdd(RAdd(G.force_i[x][v], term(0)), term(1)), Lambda(G, v))
        ELSE G.force_i[x][v]

LBM_forcegrid(G, reset_flag) ==
    IF reset_flag
    THEN [G EXCEPT !.force_i = ZeroForce_i(G), !.force_xyz = ZeroForce_xyz(G)]
    ELSE [G EXCEPT !.force_xyz = [x \in Cells(G) |-> GravityForce(G, x)],
                   !.force_i = [x \in Cells(G) |-> [v \in Vels |-> LatticeForce(G, x, v)]]]

----------------------------------------------------------------------------
(* GridObj::LBM_collide (BGK).                                             *)

\* LBM_collide(i, j, k, v): the equilibrium function
\* variant: Q_iab without the cs^2 * delta_ab term
EquilibriumNoDelta(G, x, v) ==
    LET ux == G.u[x][0]
        uy == G.u[x][1]
        A == RAdd(RMul(R(cx(v)), ux), RMul(R(cy(v)), uy))
        B == RAdd(RAdd(RMul(R(cx(v) * cx(v)), RMul(ux, ux)),
                       RMul(R(cy(v) * cy(v)), RMul(uy, uy))),
                  RMul(R(2 * cx(v) * cy(v)), RMul(ux, uy)))
    IN  RMul(RMul(G.rho[x], w(v)),
             RAdd(RAdd(One, RDiv(A, cs2)), RDiv(B, RMul(R(2), RMul(cs2, cs2)))))

\* variant: the density factor is left out
EquilibriumUnitDensity(G, x, v) ==
    LET ux == G.u[x][0]
        uy == G.u[x][1]
        A == RAdd(RMul(R(cx(v)), ux), RMul(R(cy(v)), uy))
        B == RAdd(RAdd(RMul(RSub(R(cx(v) * cx(v)), cs2), RMul(ux, ux)),
                       RMul(RSub(R(cy(v) * cy(v)), cs2), RMul(uy, uy))),
                  RMul(R(2 * cx(v) * cy(v)), RMul(ux, uy)))
    IN  RMul(w(v),
             RAdd(RAdd(One, RDiv(A, cs2)), RDiv(B, RMul(R(2), RMul(cs2, cs2)))))

Equilibrium(G, x, v) ==
    LET ux == G.u[x][0]
        uy == G.u[x][1]
        A == RAdd(RMul(R(cx(v)), ux), RMul(R(cy(v)), uy))
        B == RAdd(RAdd(RMul(RSub(R(cx(v) * cx(v)), cs2), RMul(ux, ux)),
                       RMul(RSub(R(cy(v) * cy(v)), cs2), RMul(uy, uy))),
                  RMul(R(2 * cx(v) * cy(v)), RMul(ux, uy)))
    IN  RMul(RMul(G.rho[x], w(v)),
             RAdd(RAdd(One, RDiv(A, cs2)), RDiv(B, RMul(R(2), RMul(cs2, cs2)))))

\* variant: only refined sites are skipped
CollideSkippedOnlyCovered(G, x) ==
    G.LatTyp[x] = CoveredByFiner

\* refined sites and TL sites to the upper level do not collide
CollideSkipped(G, x) ==
    G.LatTyp[x] = CoveredByFiner \/ G.LatTyp[x] = TransitionReceiveFromFiner

CollideSite(G, x, v) ==
    RAdd(RAdd(RMul(RNeg(G.omega), RSub(G.f[x][v], Equilibrium(G, x, v))), G.f[x][v]),
         G.force_i[x][v])

LBM_collide(G) ==
    [G EXCEPT
        !.feq = [x \in Cells(G) |-> [v \in Vels |->
                    IF CollideSkipped(G, x) THEN G.feq[x][v] ELSE Equilibrium(G, x, v)]],
        !.f = [x \in Cells(G) |-> [v \in Vels |->
                    IF CollideSkipped(G, x) THEN G.f[x][v] ELSE CollideSite(G, x, v)]]]

----------------------------------------------------------------------------
(* GridObj::LBM_macro.                                                     *)

RECURSIVE Pow2(_)
Pow2(n) == IF n = 0 THEN 1 ELSE 2 * Pow2(n - 1)

\* variant: the loop over v stops one direction short
SumFSkipsLast(G, x) == RSum(G.f[x], Vels \ {nVels - 1})

\* density of a site computed from its populations
SumF(G, x) == RSum(G.f[x], Vels)

\* momentum component d: sum of c_d,v * f_v plus rho * dt * 0.5 * force_xyz_d
Momentum(G, x, d) ==
    RAdd(RSum([v \in Vels |-> RMul(R(cdir(d, v)), G.f[x][v])], Vels),
         RMul(RMul(RMul(SumF(G, x), Q(1, Pow2(G.level))), Q(1, 2)), G.force_xyz[x][d]))

\* variant: label 5 is not treated as a solid
MacroRhoOnlySolid(G, x) ==
    IF G.LatTyp[x] = CoveredByFiner THEN Zero
    ELSE IF G.LatTyp[x] = Solid THEN One
    ELSE SumF(G, x)

MacroRho(G, x) ==
    IF G.LatTyp[x] = CoveredByFiner THEN Zero
    ELSE IF G.LatTyp[x] = Solid \/ G.LatTyp[x] = SolidVariant THEN One
    ELSE SumF(G, x)

\* variant: a site without density is given no velocity
MacroUGuarded(G, x, d) ==
    IF G.LatTyp[x] = CoveredByFiner THEN Zero
    ELSE IF G.LatTyp[x] = Solid \/ G.LatTyp[x] = SolidVariant THEN Zero
    ELSE IF SumF(G, x) = Zero THEN Zero
    ELSE RDiv(Momentum(G, x, d), SumF(G, x))

MacroU(G, x, d) ==
    IF G.LatTyp[x] = CoveredByFiner THEN Zero
    ELSE IF G.LatTyp[x] = Solid \/ G.LatTyp[x] = SolidVariant THEN Zero
    ELSE RDiv(Momentum(G, x, d), SumF(G, x))

\* variant: the old average is weighted with t + 1
TimeAvWeightedNext(avg, t, value) == RDiv(RAdd(RMul(avg, R(t + 1)), value), R(t + 1))

\* avg' = (avg * t + value) / (t + 1)
TimeAv(avg, t, value) == RDiv(RAdd(RMul(avg, R(t)), value), R(t + 1))

\* uiuj_timeav components in the order of the p, q loops: (0,0), (0,1), (1,1)
UiUjPairs == << <<0, 0>>, <<0, 1>>, <<1, 1>> >>

\* variant: the site's density average is updated as the bulk overload does
LBM_macro_siteWithAverage(G, x) ==
    [G EXCEPT !.rho[x] = MacroRho(G, x),
              !.u[x] = [d \in Dims |-> MacroU(G, x, d)],
              !.rho_timeav[x] = TimeAv(G.rho_timeav[x], G.t, MacroRho(G, x))]

\* the site-scoped overload LBM_macro(i, j, k): no time averages
LBM_macro_site(G, x) ==
    [G EXCEPT !.rho[x] = MacroRho(G, x),
              !.u[x] = [d \in Dims |-> MacroU(G, x, d)]]

LBM_macro(G) ==
    LET rho_new == [x \in Cells(G) |-> MacroRho(G, x)]
        u_new == [x \in Cells(G) |-> [d \in Dims |-> MacroU(G, x, d)]]
    IN  [G EXCEPT
            !.rho = rho_new,
            !.u = u_new,
            !.rho_timeav = [x \in Cells(G) |-> TimeAv(G.rho_timeav[x], G.t, rho_new[x])],
            !.ui_timeav = [x \in Cells(G) |-> [d \in Dims |->
                              TimeAv(G.ui_timeav[x][d], G.t, u_new[x][d])]],
            !.uiuj_timeav = [x \in Cells(G) |-> [n \in 1 .. Len(UiUjPairs) |->
                              TimeAv(G.uiuj_timeav[x][n], G.t,
                                     RMul(u_new[x][UiUjPairs[n][1]], u_new[x][UiUjPairs[n][2]]))]]]

----------------------------------------------------------------------------
(* GridObj::LBM_explode and GridObj::LBM_coalesce.                         *)
(* P is the coarse grid, Fg the fine grid fGrid of the region.             *)

\* coarse sites of the region of interest
RegionCells(Fg) ==
    (Fg.CoarseLimsX[1] .. Fg.CoarseLimsX[2]) \X (Fg.CoarseLimsY[1] .. Fg.CoarseLimsY[2])

\* GridUtils::getFineIndices: the first of the fine sites under coarse site x
getFineIndices(Fg, x) ==
    <<2 * (x[1] - Fg.CoarseLimsX[1]), 2 * (x[2] - Fg.CoarseLimsY[1])>>

\* the square of 4 fine sites under coarse site x
Siblings(Fg, x) ==
    LET fi == getFineIndices(Fg, x)
    IN  {<<fi[1], fi[2]>>, <<fi[1] + 1, fi[2]>>, <<fi[1], fi[2] + 1>>, <<fi[1] + 1, fi[2] + 1>>}

\* the coarse site above fine site y
CoarseOf(Fg, y) ==
    <<Fg.CoarseLimsX[1] + (y[1] \div 2), Fg.CoarseLimsY[1] + (y[2] \div 2)>>

\* variant: the fine site is tested for the coarse label
ExplodeAppliesCoarseLabel(P, Fg, x) ==
    /\ P.LatTyp[x] = TransitionToCoarser
    /\ Fg.LatTyp[getFineIndices(Fg, x)] = TransitionToCoarser

\* explosion is done for a TL-to-lower coarse site whose first fine site expects it
ExplodeApplies(P, Fg, x) ==
    /\ P.LatTyp[x] = TransitionToCoarser
    /\ Fg.LatTyp[getFineIndices(Fg, x)] = TransitionReceiveFromFiner

\* variant: the explosion hands down the coarse density with the populations
LBM_explodeWithDensity(P, Fg) ==
    [Fg EXCEPT !.f = [y \in Cells(Fg) |->
                IF CoarseOf(Fg, y) \in RegionCells(Fg) /\ ExplodeApplies(P, Fg, CoarseOf(Fg, y))
                THEN P.f[CoarseOf(Fg, y)]
                ELSE Fg.f[y]],
             !.rho = [y \in Cells(Fg) |->
                IF CoarseOf(Fg, y) \in RegionCells(Fg) /\ ExplodeApplies(P, Fg, CoarseOf(Fg, y))
                THEN P.rho[CoarseOf(Fg, y)]
                ELSE Fg.rho[y]]]

\* returns the fine grid after the explosion
LBM_explode(P, Fg) ==
    [Fg EXCEPT !.f = [y \in Cells(Fg) |->
        IF CoarseOf(Fg, y) \in RegionCells(Fg) /\ ExplodeApplies(P, Fg, CoarseOf(Fg, y))
        THEN P.f[CoarseOf(Fg, y)]
        ELSE Fg.f[y]]]

\* variant: coalesce only into TL-to-lower sites
CoalesceAppliesOnlyTL(P, x) ==
    P.LatTyp[x] = TransitionToCoarser

CoalesceApplies(P, x) ==
    P.LatTyp[x] = TransitionToCoarser \/ P.LatTyp[x] = SolidVariant

\* the average of direction v over the 4 fine sites under x
FineMean(Fg, x, v) ==
    LET fi == getFineIndices(Fg, x)
    IN  RDiv(RAdd(RAdd(RAdd(Fg.f[<<fi[1], fi[2]>>][v], Fg.f[<<fi[1] + 1, fi[2]>>][v]),
                       Fg.f[<<fi[1], fi[2] + 1>>][v]),
                  Fg.f[<<fi[1] + 1, fi[2] + 1>>][v]),
             R(Pow2(dims)))

\* a missing value on the coarse level is one that equals 0
CoalesceSlot(P, Fg, x, v) ==
    IF x \in RegionCells(Fg) /\ CoalesceApplies(P, x) /\ P.f[x][v] = Zero
    THEN FineMean(Fg, x, v)
    ELSE P.f[x][v]

\* returns the coarse grid after the coalesce
LBM_coalesce(P, Fg) ==
    [P EXCEPT !.f = [x \in Cells(P) |-> [v \in Vels |-> CoalesceSlot(P, Fg, x, v)]]]

----------------------------------------------------------------------------
(* The grid hierarchy.  A grid is named by its path from the root: the     *)
(* root is <<>>, region r of grid g is Append(g, r).  main() adds NumReg   *)
(* sub-grids to the root when NumLev # 0; each sub-grid carries one        *)
(* sub-grid of its own down to level NumLev.                               *)

NumLev == 2

NumReg == 2

\* size of the level-0 lattice
N == 2

M == 2

Root == <<>>

RECURSIVE Chain(_, _)
Chain(g, n) == IF n = 0 THEN {g} ELSE {g} \cup Chain(Append(g, 0), n - 1)

GridIds ==
    {Root} \cup
    (IF NumLev = 0 THEN {}
     ELSE UNION {Chain(<<r>>, NumLev - 1) : r \in 0 .. (NumReg - 1)})

Level(g) == Len(g)

\* number of entries of subGrid
Regions(g) ==
    IF Level(g) >= NumLev THEN 0
    ELSE IF g = Root THEN NumReg ELSE 1

Parent(g) == SubSeq(g, 1, Len(g) - 1)

\* the region of the parent lattice refined by grid g
CoarseLimsOf(g) ==
    IF Level(g) = 1 THEN [X |-> <<g[1], g[1]>>, Y |-> <<0, 0>>]
    ELSE [X |-> <<1, 1>>, Y |-> <<1, 1>>]

SizeOf(g) ==
    IF g = Root THEN <<N, M>>
    ELSE LET L == CoarseLimsOf(g)
         IN  <<2 * (L.X[2] - L.X[1] + 1), 2 * (L.Y[2] - L.Y[1] + 1)>>

CellsOf(g) == (0 .. (SizeOf(g)[1] - 1)) \X (0 .. (SizeOf(g)[2] - 1))

\* coarse sites of g that lie under one of its sub-grids
Refined(g) ==
    {x \in CellsOf(g) : \E r \in 0 .. (Regions(g) - 1) :
        LET L == CoarseLimsOf(Append(g, r))
        IN  x[1] \in L.X[1] .. L.X[2] /\ x[2] \in L.Y[1] .. L.Y[2]}

----------------------------------------------------------------------------
(* Initial fields.  Site labels, relaxation rates and initial populations  *)
(* are set by grid construction; the labellings below are the cases the    *)
(* model is run on.                                                        *)

\* number of external time steps of a run is drawn from 1 .. MaxT
MaxT == 2

\* labellings of the hierarchy
Layouts == {"TL", "Mixed"}

LatTypOf(layout, g, x) ==
    IF layout = "TL"
    THEN IF x \in Refined(g) THEN TransitionToCoarser
         ELSE IF g = Root THEN Fluid
         ELSE TransitionReceiveFromFiner
    ELSE IF g = Root
         THEN IF x = <<0, 0>> THEN TransitionToCoarser
              ELSE IF x \in Refined(g) THEN SolidVariant
              ELSE Fluid
         ELSE IF x = <<0, 0>> THEN TransitionReceiveFromFiner
              ELSE IF x \in Refined(g) THEN TransitionToCoarser
              ELSE IF x = <<1, 0>> THEN Fluid
              ELSE Solid

\* relaxation rate of a level: tau is rescaled by 2 per level
RECURSIVE OmegaOf(_, _)
OmegaOf(omega0, level) ==
    IF level = 0 THEN omega0
    ELSE LET oc == OmegaOf(omega0, level - 1)
         IN  RDiv(One, RAdd(RMul(R(2), RSub(RDiv(One, oc), Q(1, 2))), Q(1, 2)))

\* initial density of a site
RhoInit(bump, g, x) == IF bump /\ x = <<0, 0>> THEN R(2) ELSE One

InitGrid(layout, omega0, bump, g) ==
    LET sz == SizeOf(g)
        L == CoarseLimsOf(g)
        X == CellsOf(g)
    IN  [level |-> Level(g),
         N_lim |-> sz[1],
         M_lim |-> sz[2],
         CoarseLimsX |-> L.X,
         CoarseLimsY |-> L.Y,
         LatTyp |-> [x \in X |-> LatTypOf(layout, g, x)],
         omega |-> OmegaOf(omega0, Level(g)),
         t |-> 0,
         f |-> [x \in X |-> [v \in Vels |-> RMul(RhoInit(bump, g, x), w(v))]],
         feq |-> [x \in X |-> [v \in Vels |-> RMul(RhoInit(bump, g, x), w(v))]],
         force_i |-> [x \in X |-> [v \in Vels |-> Zero]],
         force_xyz |-> [x \in X |-> [d \in Dims |-> Zero]],
         rho |-> [x \in X |-> RhoInit(bump, g, x)],
         u |-> [x \in X |-> [d \in Dims |-> Zero]],
         rho_timeav |-> [x \in X |-> Zero],
         ui_timeav |-> [x \in X |-> [d \in Dims |-> Zero]],
         uiuj_timeav |-> [x \in X |-> [n \in 1 .. Len(UiUjPairs) |-> Zero]]]

\* the value of last before any operation
NoOp == [op |-> "none", g |-> Root, pre |-> <<>>]

\* the builds and runs the model covers
Configs ==
    [IBM_ON : BOOLEAN,
     PERIODIC_BOUNDARIES : {TRUE},
     INLET_DO_NOTHING : {FALSE},
     GRAVITY_ON : BOOLEAN,
     grav_direction : {0},
     grav_force : {Q(1, 8)},
     T : 1 .. MaxT]

Init ==
    /\ cfg \in Configs
    /\ \E layout \in Layouts, bump \in BOOLEAN :
          grids = [g \in GridIds |-> InitGrid(layout, One, bump, g)]
    /\ stack = <<>>
    /\ mainpc = "call"
    /\ tickstart = grids
    /\ last = NoOp
    /\ log = <<>>

----------------------------------------------------------------------------
(* GridObj::LBM_multi as a call stack of activations.  A frame holds the   *)
(* grid the method runs on, IBM_flag, the position in the body, the loop   *)
(* counter count, the region index reg and the locals *_ibm_initial.       *)

NoStore == <<>>

Frame(g, flag) ==
    [g |-> g, IBM_flag |-> flag, pc |-> "enter", count |-> 1, reg |-> 0,
     f_ibm_initial |-> NoStore, u_ibm_initial |-> NoStore, rho_ibm_initial |-> NoStore]

Top == stack[Len(stack)]

Running == mainpc = "running" /\ stack # <<>>

At(pc) == Running /\ Top.pc = pc

SetTop(fr) == [stack EXCEPT ![Len(stack)] = fr]

Event(name, g) == <<name, g>>

\* the record kept in last: operation op is about to change grid g
Did(op, g) == [op |-> op, g |-> g, pre |-> grids[g]]

\* level == 0 && IBM_flag == true, inside #ifdef IBM_ON
Predictor(fr) == cfg.IBM_ON /\ Level(fr.g) = 0 /\ fr.IBM_flag

\* mutant: the regions are coalesced straight after the collision
AfterCollideCoalesce(g) ==
    IF NumLev > Level(g) /\ Regions(g) > 0 THEN "coalesce" ELSE "stream"

\* mutant: the regions are never coalesced
AfterStreamSkipCoalesce(g) == "macro"

\* where the body goes after collision, and after streaming
AfterCollide(g) == IF NumLev > Level(g) /\ Regions(g) > 0 THEN "explode" ELSE "stream"

AfterStream(g) == IF NumLev > Level(g) /\ Regions(g) > 0 THEN "coalesce" ELSE "macro"

\* mutant: the force vectors are reset on every entry, the corrector's included
EnterAlwaysResets ==
    /\ At("enter")
    /\ LET fr == Top
           G == grids[fr.g]
       IN  /\ stack' = SetTop(IF Predictor(fr)
                              THEN [fr EXCEPT !.f_ibm_initial = G.f,
                                              !.u_ibm_initial = G.u,
                                              !.rho_ibm_initial = G.rho,
                                              !.pc = "forcegrid"]
                              ELSE [fr EXCEPT !.pc = "forcegrid"])
           /\ grids' = [grids EXCEPT ![fr.g] = LBM_forcegrid(G, TRUE)]
           /\ log' = log \o <<Event("enter", fr.g), Event("reset", fr.g)>>
    /\ last' = Did("enter", Top.g)
    /\ UNCHANGED <<cfg, mainpc, tickstart>>

\* IBM pre-kernel processing
Enter ==
    /\ At("enter")
    /\ LET fr == Top
           G == grids[fr.g]
       IN  IF cfg.IBM_ON
           THEN IF Predictor(fr)
                THEN /\ stack' = SetTop([fr EXCEPT !.f_ibm_initial = G.f,
                                                   !.u_ibm_initial = G.u,
                                                   !.rho_ibm_initial = G.rho,
                                                   !.pc = "forcegrid"])
                     /\ grids' = [grids EXCEPT ![fr.g] = LBM_forcegrid(G, TRUE)]
                     /\ log' = log \o <<Event("enter", fr.g), Event("store", fr.g),
                                        Event("reset", fr.g)>>
                ELSE /\ stack' = SetTop([fr EXCEPT !.pc = "forcegrid"])
                     /\ log' = Append(log, Event("enter", fr.g))
                     /\ UNCHANGED grids
           ELSE /\ stack' = SetTop([fr EXCEPT !.pc = "forcegrid"])
                /\ grids' = [grids EXCEPT ![fr.g] = LBM_forcegrid(G, TRUE)]
                /\ log' = log \o <<Event("enter", fr.g), Event("reset", fr.g)>>
    /\ last' = Did("enter", Top.g)
    /\ UNCHANGED <<cfg, mainpc, tickstart>>

\* LBM_forcegrid(false) at the head of the loop body
ForceGrid ==
    /\ At("forcegrid")
    /\ grids' = [grids EXCEPT ![Top.g] = LBM_forcegrid(@, FALSE)]
    /\ stack' = SetTop([Top EXCEPT !.pc = "collide"])
    /\ log' = Append(log, Event("force", Top.g))
    /\ last' = Did("force", Top.g)
    /\ UNCHANGED <<cfg, mainpc, tickstart>>

Collide ==
    /\ At("collide")
    /\ grids' = [grids EXCEPT ![Top.g] = LBM_collide(@)]
    /\ stack' = SetTop([Top EXCEPT !.pc = AfterCollide(Top.g), !.reg = 0])
    /\ log' = Append(log, Event("collide", Top.g))
    /\ last' = Did("collide", Top.g)
    /\ UNCHANGED <<cfg, mainpc, tickstart>>

\* LBM_explode(reg)
Explode ==
    /\ At("explode")
    /\ LET child == Append(Top.g, Top.reg)
       IN  /\ grids' = [grids EXCEPT ![child] = LBM_explode(grids[Top.g], @)]
           /\ log' = Append(log, Event("explode", child))
    /\ stack' = SetTop([Top EXCEPT !.pc = "call"])
    /\ last' = Did("explode", Append(Top.g, Top.reg))
    /\ UNCHANGED <<cfg, mainpc, tickstart>>

\* subGrid[reg].LBM_multi(IBM_flag); the caller resumes at the next region
CallChild ==
    /\ At("call")
    /\ LET fr == Top
           next == IF fr.reg + 1 < Regions(fr.g) THEN "explode" ELSE "stream"
       IN  stack' = Append(SetTop([fr EXCEPT !.reg = fr.reg + 1, !.pc = next]),
                           Frame(Append(fr.g, fr.reg), fr.IBM_flag))
    /\ UNCHANGED <<cfg, grids, mainpc, tickstart, last, log>>

Stream ==
    /\ At("stream")
    /\ grids' = [grids EXCEPT ![Top.g] = LBM_stream(@)]
    /\ stack' = SetTop([Top EXCEPT !.pc = AfterStream(Top.g), !.reg = 0])
    /\ log' = Append(log, Event("stream", Top.g))
    /\ last' = Did("stream", Top.g)
    /\ UNCHANGED <<cfg, mainpc, tickstart>>

\* LBM_coalesce(reg), one region per step
Coalesce ==
    /\ At("coalesce")
    /\ LET fr == Top
           child == Append(fr.g, fr.reg)
       IN  /\ grids' = [grids EXCEPT ![fr.g] = LBM_coalesce(@, grids[child])]
           /\ log' = Append(log, Event("coalesce", child))
           /\ stack' = SetTop([fr EXCEPT !.reg = fr.reg + 1,
                                         !.pc = IF fr.reg + 1 < Regions(fr.g)
                                                THEN "coalesce" ELSE "macro"])
    /\ last' = Did("coalesce", Top.g)
    /\ UNCHANGED <<cfg, mainpc, tickstart>>

Macro ==
    /\ At("macro")
    /\ grids' = [grids EXCEPT ![Top.g] = LBM_macro(@)]
    /\ stack' = SetTop([Top EXCEPT !.pc = "tick"])
    /\ log' = Append(log, Event("macro", Top.g))
    /\ last' = Did("macro", Top.g)
    /\ UNCHANGED <<cfg, mainpc, tickstart>>

\* where the body goes once the do-while loop is left
AfterLoop(fr) == IF Predictor(fr) THEN "ibm_reset" ELSE "return"

\* mutant: the loop body runs once on every level
LoopContinuesOnce(count) == count < 2

\* variant: a refined level runs the loop body three times
LoopContinuesThrice(count) == count < 4

\* } while (count < 3), evaluated after count++
LoopContinues(count) == count < 3

\* t++ and the loop test: level 0 breaks out, a refined level loops while count < 3
TickEnd ==
    /\ At("tick")
    /\ LET fr == Top
       IN  /\ grids' = [grids EXCEPT ![fr.g].t = @ + 1]
           /\ stack' = SetTop(
                 IF Level(fr.g) = 0
                 THEN [fr EXCEPT !.pc = AfterLoop(fr)]
                 ELSE [fr EXCEPT !.count = fr.count + 1,
                                 !.pc = IF LoopContinues(fr.count + 1) THEN "forcegrid"
                                        ELSE AfterLoop(fr)])
           /\ log' = Append(log, Event("t++", fr.g))
    /\ last' = Did("t++", Top.g)
    /\ UNCHANGED <<cfg, mainpc, tickstart>>

----------------------------------------------------------------------------
(* IBM post-kernel processing (predictor activation only).                 *)

\* Reset force vectors on grid in preparation for spreading step
IbmReset ==
    /\ At("ibm_reset")
    /\ grids' = [grids EXCEPT ![Top.g] = LBM_forcegrid(@, TRUE)]
    /\ stack' = SetTop([Top EXCEPT !.pc = "ibm_apply"])
    /\ log' = Append(log, Event("reset", Top.g))
    /\ last' = Did("reset", Top.g)
    /\ UNCHANGED <<cfg, mainpc, tickstart>>

\* magnitudes of the force the immersed-boundary collaborator may spread
ForceDenom == 8

IbmForces == {Zero, Q(1, ForceDenom)}

\* ObjectManager::ibm_apply(*this): spreads a Cartesian force onto the grid
IbmApply ==
    /\ At("ibm_apply")
    /\ \E F \in IbmForces :
          grids' = [grids EXCEPT ![Top.g].force_xyz =
                       [x \in Cells(grids[Top.g]) |->
                           IF x = <<0, 1>> THEN [@[x] EXCEPT ![0] = RAdd(@, F)] ELSE @[x]]]
    /\ stack' = SetTop([Top EXCEPT !.pc = "restore"])
    /\ log' = Append(log, Event("ibm_apply", Top.g))
    /\ last' = Did("ibm_apply", Top.g)
    /\ UNCHANGED <<cfg, mainpc, tickstart>>

\* mutant: the corrector is launched without t--
RestoreNoRollback ==
    /\ At("restore")
    /\ grids' = [grids EXCEPT ![Top.g] =
                    [@ EXCEPT !.f = Top.f_ibm_initial,
                              !.u = Top.u_ibm_initial,
                              !.rho = Top.rho_ibm_initial]]
    /\ stack' = SetTop([Top EXCEPT !.pc = "corrector"])
    /\ log' = Append(log, Event("restore", Top.g))
    /\ last' = Did("restore", Top.g)
    /\ UNCHANGED <<cfg, mainpc, tickstart>>

\* mutant: the velocity is not restored
RestoreNoVelocity ==
    /\ At("restore")
    /\ grids' = [grids EXCEPT ![Top.g] =
                    [@ EXCEPT !.f = Top.f_ibm_initial,
                              !.rho = Top.rho_ibm_initial,
                              !.t = @ - 1]]
    /\ stack' = SetTop([Top EXCEPT !.pc = "corrector"])
    /\ log' = log \o <<Event("restore", Top.g), Event("t--", Top.g)>>
    /\ last' = Did("restore", Top.g)
    /\ UNCHANGED <<cfg, mainpc, tickstart>>

\* Restore data to start of time step, and t--
Restore ==
    /\ At("restore")
    /\ grids' = [grids EXCEPT ![Top.g] =
                    [@ EXCEPT !.f = Top.f_ibm_initial,
                              !.u = Top.u_ibm_initial,
                              !.rho = Top.rho_ibm_initial,
                              !.t = @ - 1]]
    /\ stack' = SetTop([Top EXCEPT !.pc = "corrector"])
    /\ log' = log \o <<Event("restore", Top.g), Event("t--", Top.g)>>
    /\ last' = Did("restore", Top.g)
    /\ UNCHANGED <<cfg, mainpc, tickstart>>

\* LBM_multi(false): the corrector step
CallCorrector ==
    /\ At("corrector")
    /\ stack' = Append(SetTop([Top EXCEPT !.pc = "move"]), Frame(Top.g, FALSE))
    /\ log' = Append(log, Event("corrector", Top.g))
    /\ UNCHANGED <<cfg, grids, mainpc, tickstart, last>>

\* ObjectManager::ibm_move_bodies(*this)
IbmMoveBodies ==
    /\ At("move")
    /\ stack' = SetTop([Top EXCEPT !.pc = "return"])
    /\ log' = Append(log, Event("ibm_move_bodies", Top.g))
    /\ UNCHANGED <<cfg, grids, mainpc, tickstart, last>>

\* the method returns to its caller
Return ==
    /\ At("return")
    /\ stack' = SubSeq(stack, 1, Len(stack) - 1)
    /\ mainpc' = IF Len(stack) = 1 THEN "check" ELSE mainpc
    /\ log' = Append(log, Event("return", Top.g))
    /\ UNCHANGED <<cfg, grids, tickstart, last>>

----------------------------------------------------------------------------
(* main(): do { Grids.LBM_multi(IBM_ON) ... } while (Grids.t < T).         *)

MainCall ==
    /\ mainpc = "call"
    /\ stack' = <<Frame(Root, cfg.IBM_ON)>>
    /\ mainpc' = "running"
    /\ tickstart' = grids
    /\ log' = <<>>
    /\ UNCHANGED <<cfg, grids, last>>

MainCheck ==
    /\ mainpc = "check"
    /\ mainpc' = IF grids[Root].t < cfg.T THEN "call" ELSE "done"
    /\ UNCHANGED <<cfg, grids, stack, tickstart, last, log>>

Next ==
    \/ MainCall
    \/ Enter
    \/ ForceGrid
    \/ Collide
    \/ Explode
    \/ CallChild
    \/ Stream
    \/ Coalesce
    \/ Macro
    \/ TickEnd
    \/ IbmReset
    \/ IbmApply
    \/ Restore
    \/ CallCorrector
    \/ IbmMoveBodies
    \/ Return
    \/ MainCheck

Spec == Init /\ [][Next]_vars

\* The program is one thread that runs to completion: a step that can be taken
\* is taken.  Every step moves the position of main() or of the innermost
\* activation, so fairness is stated on the control state.
control == <<mainpc, stack>>

SpecFair == Init /\ [][Next]_vars /\ WF_control(Next)

----------------------------------------------------------------------------
(* Single operations on drawn inputs.  The specifications below apply one  *)
(* kernel operation at a time to grids whose labels and populations are    *)
(* drawn from bounded sets; stack stays empty and mainpc is "single".      *)

\* a grid with given size, level, labels and populations, at rest otherwise
PlainGrid(level, n, m, typ, pop) ==
    LET X == (0 .. (n - 1)) \X (0 .. (m - 1))
    IN  [level |-> level,
         N_lim |-> n,
         M_lim |-> m,
         CoarseLimsX |-> <<0, 0>>,
         CoarseLimsY |-> <<0, 0>>,
         LatTyp |-> [x \in X |-> typ[x]],
         omega |-> OmegaOf(One, level),
         t |-> 0,
         f |-> [x \in X |-> [v \in Vels |-> pop[x][v]]],
         feq |-> [x \in X |-> [v \in Vels |-> Zero]],
         force_i |-> [x \in X |-> [v \in Vels |-> Zero]],
         force_xyz |-> [x \in X |-> [d \in Dims |-> Zero]],
         rho |-> [x \in X |-> One],
         u |-> [x \in X |-> [d \in Dims |-> Zero]],
         rho_timeav |-> [x \in X |-> Zero],
         ui_timeav |-> [x \in X |-> [d \in Dims |-> Zero]],
         uiuj_timeav |-> [x \in X |-> [n1 \in 1 .. Len(UiUjPairs) |-> Zero]]]

SingleConfigs(periodic) ==
    [IBM_ON : {FALSE},
     PERIODIC_BOUNDARIES : periodic,
     INLET_DO_NOTHING : {FALSE},
     GRAVITY_ON : {FALSE},
     grav_direction : {0},
     grav_force : {Zero},
     T : {1}]

InitSingle ==
    /\ stack = <<>>
    /\ mainpc = "single"
    /\ tickstart = grids
    /\ last = NoOp
    /\ log = <<>>

----------------------------------------------------------------------------
(* SpecStream: LBM_stream called repeatedly on one grid.                   *)

\* largest lattice drawn: MaxN by MaxM sites
MaxN == 3

MaxM == 2

\* value of the one population that is not zero
MaxPop == 2

\* labels a single odd site may carry on an otherwise Fluid lattice
OddLabels == {Fluid, Solid, CoveredByFiner}

InitStream ==
    /\ cfg \in SingleConfigs(BOOLEAN)
    /\ \E n \in 1 .. MaxN, m \in 1 .. MaxM, level \in {0, 1}, odd \in OddLabels,
          a \in 1 .. MaxPop :
          \E X \in (0 .. (n - 1)) \X (0 .. (m - 1)), v \in Vels :
             grids = [g \in {Root} |->
                PlainGrid(level, n, m,
                    [x \in (0 .. (n - 1)) \X (0 .. (m - 1)) |->
                        IF x = <<0, 0>> THEN odd ELSE Fluid],
                    [x \in (0 .. (n - 1)) \X (0 .. (m - 1)) |-> [d \in Vels |->
                        IF x = X /\ d = v THEN R(a) ELSE Zero]])]
    /\ InitSingle

Longest(G) == IF G.N_lim > G.M_lim THEN G.N_lim ELSE G.M_lim

StreamOnce ==
    /\ mainpc = "single"
    /\ Len(log) < Longest(grids[Root])
    /\ grids' = [grids EXCEPT ![Root] = LBM_stream(@)]
    /\ last' = Did("stream", Root)
    /\ log' = Append(log, Event("stream", Root))
    /\ UNCHANGED <<cfg, stack, mainpc, tickstart>>

NextStream == StreamOnce

SpecStream == InitStream /\ [][NextStream]_vars

----------------------------------------------------------------------------
(* SpecStreamLabels: LBM_stream on an N by M lattice whose sites carry     *)
(* drawn labels and whose populations are all different and not 0, so that *)
(* a value found after the stream tells which population it was.           *)

StreamLabels == {Fluid, Solid, CoveredByFiner, TransitionToCoarser, DoNothingInlet}

DistinctPop(x, v) == R(1 + (x[1] * M + x[2]) * nVels + v)

InitStreamLabels ==
    /\ cfg \in [IBM_ON : {FALSE},
                PERIODIC_BOUNDARIES : BOOLEAN,
                INLET_DO_NOTHING : BOOLEAN,
                GRAVITY_ON : {FALSE},
                grav_direction : {0},
                grav_force : {Zero},
                T : {1}]
    /\ \E level \in {0, 1}, typ \in [(0 .. (N - 1)) \X (0 .. (M - 1)) -> StreamLabels] :
          grids = [g \in {Root} |->
                      PlainGrid(level, N, M, typ,
                          [x \in (0 .. (N - 1)) \X (0 .. (M - 1)) |->
                              [v \in Vels |-> DistinctPop(x, v)]])]
    /\ InitSingle

SpecStreamLabels == InitStreamLabels /\ [][NextStream]_vars

----------------------------------------------------------------------------
(* SpecSweep: the loop nests of LBM_collide and LBM_stream run visit by    *)
(* visit, one (site, direction) pair after the other, in the order of the  *)
(* source and in two other orders, on level-0 lattices with drawn labels.  *)

\* as written (i, j, k, v); back to front; direction by direction
Orders == {"loop", "reverse", "direction"}

VisitKey(G, order, p) ==
    IF order = "loop" THEN LoopOrder(G, p[1], p[2])
    ELSE IF order = "reverse" THEN Cardinality(Slots(G)) - 1 - LoopOrder(G, p[1], p[2])
    ELSE p[2] * (G.N_lim * G.M_lim) + (p[1][1] * G.M_lim + p[1][2])

\* Both loops read the lattice as it was before the sweep (f, feq's own slot,
\* rho, u, force_i, LatTyp) and assign a buffer f_new that replaces f after the
\* last visit; a slot of the result holds what the last visit that assigned it
\* stored, or the buffer's initial value.
LastVisit(G, order, W) ==
    CHOOSE q \in W : \A r \in W : VisitKey(G, order, r) <= VisitKey(G, order, q)

\* the assignments of a streaming sweep, each with the visit that makes it
StreamAssigns(G) ==
    UNION {{<<p, wr>> : wr \in StreamWrite(G, p[1], p[2])} : p \in Slots(G)}

\* f_new of zeros, the visits, f = f_new
StreamIn(G, order) ==
    LET A == StreamAssigns(G)
    IN  [G EXCEPT !.f = [y \in Cells(G) |-> [s \in Vels |->
            LET W == {a[1] : a \in {b \in A : b[2][1] = y /\ b[2][2] = s}}
            IN  IF W = {} THEN Zero
                ELSE LET p == LastVisit(G, order, W)
                         a == CHOOSE b \in A : b[1] = p
                     IN  a[2][3]]]]

\* the visits of a collision sweep that assign feq(y, s) and f_new(y, s)
CollideVisits(G, y, s) ==
    {p \in Slots(G) : ~CollideSkipped(G, p[1]) /\ p[1] = y /\ p[2] = s}

\* f_new a copy of f, the visits, f = f_new
CollideIn(G, order) ==
    [G EXCEPT
        !.feq = [y \in Cells(G) |-> [s \in Vels |->
                    LET W == CollideVisits(G, y, s)
                    IN  IF W = {} THEN G.feq[y][s]
                        ELSE LET p == LastVisit(G, order, W)
                             IN  Equilibrium(G, p[1], p[2])]],
        !.f = [y \in Cells(G) |-> [s \in Vels |->
                    LET W == CollideVisits(G, y, s)
                    IN  IF W = {} THEN G.f[y][s]
                        ELSE LET p == LastVisit(G, order, W)
                             IN  CollideSite(G, p[1], p[2])]]]

SweepCollide ==
    /\ mainpc = "single"
    /\ log = <<>>
    /\ \E order \in Orders :
          /\ grids' = [grids EXCEPT ![Root] = CollideIn(@, order)]
          /\ log' = Append(log, Event(order, Root))
    /\ last' = Did("collide", Root)
    /\ UNCHANGED <<cfg, stack, mainpc, tickstart>>

SweepStream ==
    /\ mainpc = "single"
    /\ log = <<>>
    /\ \E order \in Orders :
          /\ grids' = [grids EXCEPT ![Root] = StreamIn(@, order)]
          /\ log' = Append(log, Event(order, Root))
    /\ last' = Did("stream", Root)
    /\ UNCHANGED <<cfg, stack, mainpc, tickstart>>

NextSweep == SweepCollide \/ SweepStream

\* the level-0 lattices of SpecStreamLabels
InitSweep == InitStreamLabels /\ grids[Root].level = 0

SpecSweep == InitSweep /\ [][NextSweep]_vars

----------------------------------------------------------------------------
(* SpecCouple: LBM_explode and LBM_coalesce between a coarse grid of two   *)
(* sites, Root, and the fine grid <<0>> that refines its site <<0, 0>>.    *)

Fine == <<0>>

\* the fine populations are Pattern * (1 + i + 2j) + v, for Pattern in 0 .. MaxPattern
MaxPattern == 2

\* sets of directions whose coarse population is 0
ZeroMasks == {{}, {0, nVels - 1}, Vels}

\* labels drawn for the fine sites: the first site of a square, and the other three
FirstLabels == {TransitionReceiveFromFiner, Fluid}

OtherLabels == {TransitionReceiveFromFiner, Fluid, Solid}

CoarseGrid(typ, mask) ==
    PlainGrid(0, 2, 1,
        [x \in (0 .. 1) \X {0} |-> IF x = <<0, 0>> THEN typ ELSE TransitionToCoarser],
        [x \in (0 .. 1) \X {0} |-> [v \in Vels |->
            IF x = <<0, 0>> /\ v \notin mask THEN R(10 + v) ELSE Zero]])

\* the same, with the populations of site <<0, 0>> at every coarse site
UniformCoarseGrid(typ, mask) ==
    PlainGrid(0, 2, 1,
        [x \in (0 .. 1) \X {0} |-> IF x = <<0, 0>> THEN typ ELSE TransitionToCoarser],
        [x \in (0 .. 1) \X {0} |-> [v \in Vels |->
            IF v \notin mask THEN R(10 + v) ELSE Zero]])

FineGrid(first, other, pat) ==
    PlainGrid(1, 2, 2,
        [y \in (0 .. 1) \X (0 .. 1) |-> IF y = <<0, 0>> THEN first ELSE other],
        [y \in (0 .. 1) \X (0 .. 1) |-> [v \in Vels |->
            IF pat = 0 THEN Zero ELSE R(pat * (1 + y[1] + 2 * y[2]) + v)]])

InitCouple ==
    /\ cfg \in SingleConfigs({TRUE})
    /\ \E typ \in SiteTypes, mask \in ZeroMasks, first \in FirstLabels,
          other \in OtherLabels, pat \in 0 .. MaxPattern, uniform \in BOOLEAN :
          grids = [g \in {Root, Fine} |->
                      IF g = Root
                      THEN IF uniform THEN UniformCoarseGrid(typ, mask)
                           ELSE CoarseGrid(typ, mask)
                      ELSE FineGrid(first, other, pat)]
    /\ InitSingle

\* number of operations applied in a row
MaxOps == 2

ExplodeOnce ==
    /\ mainpc = "single"
    /\ Len(log) < MaxOps
    /\ grids' = [grids EXCEPT ![Fine] = LBM_explode(grids[Root], @)]
    /\ last' = Did("explode", Fine)
    /\ log' = Append(log, Event("explode", Fine))
    /\ UNCHANGED <<cfg, stack, mainpc, tickstart>>

CoalesceOnce ==
    /\ mainpc = "single"
    /\ Len(log) < MaxOps
    /\ grids' = [grids EXCEPT ![Root] = LBM_coalesce(@, grids[Fine])]
    /\ last' = Did("coalesce", Root)
    /\ log' = Append(log, Event("coalesce", Fine))
    /\ UNCHANGED <<cfg, stack, mainpc, tickstart>>

NextCouple == ExplodeOnce \/ CoalesceOnce

SpecCouple == InitCouple /\ [][NextCouple]_vars

----------------------------------------------------------------------------
(* SpecSingleLevel: main's time loop on a build with NumLev = 0 and IBM_ON *)
(* undefined.  The one grid has no sub-grids, so a call of LBM_multi is    *)
(* taken as a single step: reset of the forces, forcing, collision,        *)
(* stream, macroscopic update and t++.  Each entry of log holds the grid   *)
(* as the call left it.                                                    *)

\* the step count T is drawn from 1 .. MaxTicks, the initial t from 0 .. T
MaxTicks == 3

\* LBM_multi on a level-0 grid without lower levels, IBM_ON undefined
LBM_multi_leaf(G) ==
    LET reset == LBM_forcegrid(G, TRUE)
        forced == LBM_forcegrid(reset, FALSE)
        collided == LBM_collide(forced)
        streamed == LBM_stream(collided)
        recovered == LBM_macro(streamed)
    IN  [recovered EXCEPT !.t = @ + 1]

\* initial fields: at rest with density 1, with density 2 at site <<0, 0>>,
\* or with one more unit moving in direction 0 at site <<0, 0>>
Fields == {"rest", "bump", "jet"}

FieldRho(field, x) ==
    IF x # <<0, 0>> \/ field = "rest" THEN One
    ELSE IF field = "bump" THEN R(2)
    ELSE RAdd(One, One)

FieldPop(field, x, v) ==
    IF x # <<0, 0>> \/ field = "rest" THEN w(v)
    ELSE IF field = "bump" THEN RMul(R(2), w(v))
    ELSE IF v = 0 THEN RAdd(w(v), One) ELSE w(v)

FieldU(field, x, d) ==
    IF field = "jet" /\ x = <<0, 0>> /\ d = 0 THEN Q(1, 2) ELSE Zero

SingleLevelGrid(odd, field, omega0, t0) ==
    LET X == (0 .. (N - 1)) \X (0 .. (M - 1))
        G == PlainGrid(0, N, M,
                 [x \in X |-> IF x = <<0, 0>> THEN odd ELSE Fluid],
                 [x \in X |-> [v \in Vels |-> FieldPop(field, x, v)]])
    IN  [G EXCEPT !.t = t0,
                  !.omega = omega0,
                  !.rho = [x \in X |-> FieldRho(field, x)],
                  !.u = [x \in X |-> [d \in Dims |-> FieldU(field, x, d)]]]

SingleLevelConfigs ==
    [IBM_ON : {FALSE},
     PERIODIC_BOUNDARIES : BOOLEAN,
     INLET_DO_NOTHING : {FALSE},
     GRAVITY_ON : BOOLEAN,
     grav_direction : {0},
     grav_force : {Q(1, 8)},
     T : 1 .. MaxTicks]

InitSingleLevel ==
    /\ cfg \in SingleLevelConfigs
    /\ \E odd \in OddLabels, field \in Fields, omega0 \in {One, Q(1, 2)}, t0 \in 0 .. cfg.T :
          grids = [g \in {Root} |-> SingleLevelGrid(odd, field, omega0, t0)]
    /\ stack = <<>>
    /\ mainpc = "call"
    /\ tickstart = grids
    /\ last = NoOp
    /\ log = <<>>

\* Grids.LBM_multi(false) in the body of the do-while loop
MainCallLeaf ==
    /\ mainpc = "call"
    /\ grids' = [grids EXCEPT ![Root] = LBM_multi_leaf(@)]
    /\ mainpc' = "check"
    /\ last' = Did("LBM_multi", Root)
    /\ log' = Append(log, Event("LBM_multi", grids'[Root]))
    /\ UNCHANGED <<cfg, stack, tickstart>>

NextSingleLevel == MainCallLeaf \/ MainCheck

SpecSingleLevel == InitSingleLevel /\ [][NextSingleLevel]_vars

----------------------------------------------------------------------------
(* SpecSite: one call of LBM_collide or of LBM_macro on a lattice of two   *)
(* sites.  Site <<0, 0>> is drawn: label, stored density and velocity,     *)
(* populations, forces; site <<1, 0>> is Fluid at rest.                    *)

Drawn == <<0, 0>>

RhoValues == {One, R(2), Q(1, 2)}

UValues == {<<Zero, Zero>>, <<Q(1, 10), Zero>>, <<Zero, RNeg(Q(1, 5))>>, <<Q(1, 10), RNeg(Q(1, 5))>>}

OmegaValues == {Q(1, 2), One, Q(3, 2)}

\* populations of the drawn site: at the equilibrium of its density and velocity;
\* off equilibrium with the same sum; unrelated to the stored density; two
\* values that cancel; all 0
PopKinds == {"feq", "skew", "free", "cancel", "zero"}

\* the lattice before the populations of the drawn site are set
SiteGridBase(level, typ, rho, u, omega, fi, fxyz) ==
    LET X == (0 .. 1) \X {0}
        G == PlainGrid(level, 2, 1,
                 [x \in X |-> IF x = Drawn THEN typ ELSE Fluid],
                 [x \in X |-> [v \in Vels |-> w(v)]])
    IN  [G EXCEPT !.omega = omega,
                  !.rho = [x \in X |-> IF x = Drawn THEN rho ELSE One],
                  !.u = [x \in X |-> [d \in Dims |-> IF x = Drawn THEN u[d + 1] ELSE Zero]],
                  !.force_i = [x \in X |-> [v \in Vels |->
                                  IF x = Drawn /\ fi THEN Q(v + 1, 100) ELSE Zero]],
                  !.force_xyz = [x \in X |-> [d \in Dims |->
                                  IF x = Drawn /\ fxyz THEN Q(d + 1, 10) ELSE Zero]]]

SitePop(G, kind, v) ==
    IF kind = "feq" THEN Equilibrium(G, Drawn, v)
    ELSE IF kind = "skew"
         THEN RAdd(RMul(G.rho[Drawn], w(v)),
                   IF v = 0 THEN Q(1, 10) ELSE IF v = 1 THEN RNeg(Q(1, 10)) ELSE Zero)
    ELSE IF kind = "free" THEN Q(v + 1, 7)
    ELSE IF kind = "cancel"
         THEN IF v = 0 THEN Q(1, 10) ELSE IF v = 1 THEN RNeg(Q(1, 10)) ELSE Zero
    ELSE Zero

SiteGrid(level, typ, rho, u, omega, fi, fxyz, kind) ==
    LET G == SiteGridBase(level, typ, rho, u, omega, fi, fxyz)
    IN  [G EXCEPT !.f[Drawn] = [v \in Vels |-> SitePop(G, kind, v)]]

InitSite ==
    /\ cfg \in SingleConfigs({TRUE})
    /\ \E level \in {0, 1}, typ \in SiteTypes, rho \in RhoValues, u \in UValues,
          omega \in OmegaValues, fi \in BOOLEAN, fxyz \in BOOLEAN, kind \in PopKinds :
          grids = [g \in {Root} |-> SiteGrid(level, typ, rho, u, omega, fi, fxyz, kind)]
    /\ InitSingle

CollideOnce ==
    /\ mainpc = "single"
    /\ log = <<>>
    /\ grids' = [grids EXCEPT ![Root] = LBM_collide(@)]
    /\ last' = Did("collide", Root)
    /\ log' = Append(log, Event("collide", Root))
    /\ UNCHANGED <<cfg, stack, mainpc, tickstart>>

MacroOnce ==
    /\ mainpc = "single"
    /\ log = <<>>
    /\ grids' = [grids EXCEPT ![Root] = LBM_macro(@)]
    /\ last' = Did("macro", Root)
    /\ log' = Append(log, Event("macro", Root))
    /\ UNCHANGED <<cfg, stack, mainpc, tickstart>>

\* LBM_macro(i, j, k) on a site of the lattice
MacroSiteOnce ==
    /\ mainpc = "single"
    /\ log = <<>>
    /\ \E x \in Cells(grids[Root]) :
          /\ grids' = [grids EXCEPT ![Root] = LBM_macro_site(@, x)]
          /\ log' = Append(log, Event("macro_site", x))
    /\ last' = Did("macro_site", Root)
    /\ UNCHANGED <<cfg, stack, mainpc, tickstart>>

NextSite == CollideOnce \/ MacroOnce \/ MacroSiteOnce

SpecSite == InitSite /\ [][NextSite]_vars

----------------------------------------------------------------------------
(* Reading the history.                                                    *)

\* the events of log that are in S, in order
Only(S) == SelectSeq(log, LAMBDA e : e \in S)

\* sq repeats the pattern pat, possibly stopping part-way
Cyclic(sq, pat) == \A k \in 1 .. Len(sq) : sq[k] = pat[((k - 1) % Len(pat)) + 1]

\* positions of event e
Where(e) == {i \in 1 .. Len(log) : log[i] = e}

\* the last position before i of event e, 0 if there is none
LastBefore(e, i) ==
    LET S == {j \in Where(e) : j < i}
    IN  IF S = {} THEN 0 ELSE CHOOSE j \in S : \A k \in S : k <= j

\* number of occurrences of e at positions lo+1 .. hi-1
CountBetween(e, lo, hi) == Cardinality({j \in Where(e) : lo < j /\ j < hi})

NonRoot == GridIds \ {Root}

WithRegions == {g \in GridIds : Regions(g) > 0}

SubGrids(g) == {Append(g, r) : r \in 0 .. (Regions(g) - 1)}

ExternalTickDone == mainpc = "check"

----------------------------------------------------------------------------
(* C1: 2:1 cadence.  For every sub-grid g the events explode(g), tick of   *)
(* g, coalesce(g) occur as repetitions of explode, tick, tick, coalesce,   *)
(* every tick of g advances its counter t by one, and one pass of the      *)
(* kernel on the root performs exactly 2^L ticks on a level-L grid.        *)

Bracket(g) ==
    <<Event("explode", g), Event("t++", g), Event("t++", g), Event("coalesce", g)>>

C1_Cadence ==
    \A g \in NonRoot :
        /\ Cyclic(Only({Event("explode", g), Event("t++", g), Event("coalesce", g)}),
                  Bracket(g))
        /\ grids[g].t = tickstart[g].t + Cardinality(Where(Event("t++", g)))
        /\ \A i \in Where(Event("t++", Root)) :
              CountBetween(Event("t++", g), LastBefore(Event("enter", Root), i), i)
                  = Pow2(Level(g))

\* a root pass without predictor-corrector is over and a level-2 grid ticked 4 times
C1_Witness ==
    /\ ExternalTickDone
    /\ ~cfg.IBM_ON
    /\ \E g \in NonRoot : Level(g) = 2 /\ Cardinality(Where(Event("t++", g))) = 4

----------------------------------------------------------------------------
(* C2: every tick of every grid is one collision, then one stream, then    *)
(* one bulk macroscopic update, then the increment of t; on a grid with    *)
(* regions the macroscopic update of a tick comes after the coalesce of    *)
(* every region in that tick.                                              *)

TickCycle(g) ==
    <<Event("collide", g), Event("stream", g), Event("macro", g), Event("t++", g)>>

C2_TickOrder ==
    \A g \in GridIds :
        /\ Cyclic(Only({TickCycle(g)[k] : k \in 1 .. 4}), TickCycle(g))
        /\ \A i \in Where(Event("macro", g)) : \A h \in SubGrids(g) :
              CountBetween(Event("coalesce", h), LastBefore(Event("collide", g), i), i) = 1

\* the root, which has regions, has just done its macroscopic update
C2_Witness ==
    /\ last.op = "macro"
    /\ last.g = Root
    /\ Regions(Root) > 0
    /\ \E i \in Where(Event("macro", Root)) : i = Len(log)

----------------------------------------------------------------------------
(* C3 as claimed: on a grid with regions, explode, the two child ticks and *)
(* coalesce of every region precede the grid's stream of the same tick.    *)

C3_CoalesceBeforeStream ==
    \A g \in WithRegions : \A i \in Where(Event("stream", g)) : \A h \in SubGrids(g) :
        LET lc == LastBefore(Event("collide", g), i)
        IN  /\ CountBetween(Event("explode", h), lc, i) = 1
            /\ CountBetween(Event("t++", h), lc, i) = 2
            /\ CountBetween(Event("coalesce", h), lc, i) = 1

(* C3 amended: explode and the two child ticks of every region precede the *)
(* grid's stream of the same tick; coalesce of every region comes after    *)
(* that stream and before the macroscopic update.                          *)

C3_StreamBeforeCoalesce ==
    \A g \in WithRegions : \A h \in SubGrids(g) :
        /\ \A i \in Where(Event("stream", g)) :
              LET lc == LastBefore(Event("collide", g), i)
              IN  /\ CountBetween(Event("explode", h), lc, i) = 1
                  /\ CountBetween(Event("t++", h), lc, i) = 2
                  /\ CountBetween(Event("coalesce", h), lc, i) = 0
        /\ \A i \in Where(Event("coalesce", h)) :
              CountBetween(Event("stream", g), LastBefore(Event("collide", g), i), i) = 1
        /\ \A i \in Where(Event("macro", g)) :
              CountBetween(Event("coalesce", h), LastBefore(Event("stream", g), i), i) = 1

\* the root has just coalesced its last region
C3_Witness ==
    /\ last.op = "coalesce"
    /\ last.g = Root
    /\ log[Len(log)] = Event("coalesce", <<NumReg - 1>>)

----------------------------------------------------------------------------
(* C6: with predictor-corrector, one external tick advances the root's     *)
(* counter t by exactly 1: the predictor increments it, it is decremented  *)
(* once before the corrector is launched, and the corrector increments it  *)
(* once.                                                                   *)

C6_OneTickPerExternalTick ==
    (cfg.IBM_ON /\ ExternalTickDone) =>
        /\ grids[Root].t = tickstart[Root].t + 1
        /\ Only({Event("t++", Root), Event("t--", Root), Event("corrector", Root)})
             = <<Event("t++", Root), Event("t--", Root), Event("corrector", Root),
                 Event("t++", Root)>>

\* an external tick with predictor and corrector is over
C6_Witness ==
    /\ cfg.IBM_ON
    /\ ExternalTickDone
    /\ Cardinality(Where(Event("t++", Root))) = 2

----------------------------------------------------------------------------
(* C7: with predictor-corrector, when the corrector activation starts, the *)
(* root's f, rho and u are the values they had when the external tick      *)
(* began.                                                                  *)

CorrectorStarts ==
    /\ cfg.IBM_ON
    /\ Running
    /\ Len(stack) = 2
    /\ Top.g = Root
    /\ ~Top.IBM_flag
    /\ Top.pc = "enter"

C7_CorrectorFromInitialState ==
    CorrectorStarts =>
        /\ grids[Root].f = tickstart[Root].f
        /\ grids[Root].rho = tickstart[Root].rho
        /\ grids[Root].u = tickstart[Root].u

\* the corrector starts after a predictor that had changed f, rho and u, with a
\* non-zero force left by ibm_apply
C7_Witness ==
    /\ CorrectorStarts
    /\ last.op = "restore"
    /\ last.pre.f # grids[Root].f
    /\ last.pre.rho # grids[Root].rho
    /\ last.pre.u # grids[Root].u
    /\ grids[Root].force_xyz # ZeroForce_xyz(grids[Root])

----------------------------------------------------------------------------
(* C8: with predictor-corrector, an external tick calls ibm_apply exactly  *)
(* once, after the predictor's kernel pass and a force reset and before    *)
(* the restore and the corrector; it calls ibm_move_bodies exactly once,   *)
(* after the corrector has returned; the corrector makes neither call and  *)
(* does not reset the forces.                                              *)

IbmTickEvents ==
    <<Event("enter", Root), Event("reset", Root), Event("t++", Root),
      Event("reset", Root), Event("ibm_apply", Root), Event("restore", Root),
      Event("corrector", Root), Event("enter", Root), Event("t++", Root),
      Event("return", Root), Event("ibm_move_bodies", Root), Event("return", Root)>>

C8_IbmCallsOncePerTick ==
    (cfg.IBM_ON /\ ExternalTickDone) =>
        Only({IbmTickEvents[k] : k \in 1 .. Len(IbmTickEvents)}) = IbmTickEvents

\* the body-motion update has just been called, after one ibm_apply
C8_Witness ==
    /\ cfg.IBM_ON
    /\ ExternalTickDone
    /\ Cardinality(Where(Event("ibm_apply", Root))) = 1
    /\ Cardinality(Where(Event("ibm_move_bodies", Root))) = 1

----------------------------------------------------------------------------
(* C4 as claimed: explode writes a fine site if and only if that site's    *)
(* own label is TransitionReceiveFromFiner: under a coarse site labelled   *)
(* TransitionToCoarser inside the region, a fine site with that label      *)
(* receives every population of the coarse site, and a fine site with any  *)
(* other label, like every fine site elsewhere, keeps its populations.     *)

C4_PerSiblingTag ==
    last.op = "explode" =>
        LET Fg == grids[last.g]
            P == grids[Parent(last.g)]
        IN  \A y \in Cells(Fg), v \in Vels :
               LET x == CoarseOf(Fg, y)
               IN  IF /\ x \in RegionCells(Fg)
                      /\ P.LatTyp[x] = TransitionToCoarser
                      /\ last.pre.LatTyp[y] = TransitionReceiveFromFiner
                   THEN Fg.f[y][v] = P.f[x][v]
                   ELSE Fg.f[y][v] = last.pre.f[y][v]

----------------------------------------------------------------------------
(* C5: coalesce replaces a population of a coarse site by the arithmetic   *)
(* mean over the 4 fine sites under it exactly when the site is inside the *)
(* region, is labelled TransitionToCoarser or SolidVariant, and the        *)
(* population was 0 before; every other coarse population is unchanged.    *)

C5_CoalesceMean ==
    last.op = "coalesce" =>
        LET P0 == last.pre
            P1 == grids[last.g]
            Fg == grids[log[Len(log)][2]]
        IN  \A x \in Cells(P1), v \in Vels :
               IF /\ x \in RegionCells(Fg)
                  /\ P0.LatTyp[x] \in {TransitionToCoarser, SolidVariant}
                  /\ P0.f[x][v] = Zero
               THEN RMul(R(Cardinality(Siblings(Fg, x))), P1.f[x][v])
                        = RSum([y \in Siblings(Fg, x) |-> Fg.f[y][v]], Siblings(Fg, x))
               ELSE P1.f[x][v] = P0.f[x][v]

\* a coarse site had one population missing and one present; the missing one
\* is now a mean that differs from each of the 4 fine values
C5_Witness ==
    /\ last.op = "coalesce"
    /\ \E x \in RegionCells(grids[log[Len(log)][2]]) :
          /\ last.pre.LatTyp[x] \in {TransitionToCoarser, SolidVariant}
          /\ \E v \in Vels :
                /\ last.pre.f[x][v] = Zero
                /\ grids[last.g].f[x][v] # Zero
                /\ \A y \in Siblings(grids[log[Len(log)][2]], x) :
                      grids[log[Len(log)][2]].f[y][v] # grids[last.g].f[x][v]
          /\ \E v \in Vels :
                /\ last.pre.f[x][v] # Zero
                /\ grids[last.g].f[x][v] = last.pre.f[x][v]

----------------------------------------------------------------------------
(* Streaming of a single population.                                       *)

AllFluid(G) == \A x \in Cells(G) : G.LatTyp[x] = Fluid

\* population v of site X is the only one that is not 0
OneHot(G, X, v) ==
    /\ G.f[X][v] # Zero
    /\ \A p \in Slots(G) : p # <<X, v>> => G.f[p[1]][p[2]] = Zero

Ahead(X, v) == <<X[1] + cx(v), X[2] + cy(v)>>

Behind(X, v) == <<X[1] - cx(v), X[2] - cy(v)>>

\* G1 holds value a in slot v of site Y and 0 everywhere else
OnlyAt(G1, Y, v, a) ==
    \A p \in Slots(G1) : G1.f[p[1]][p[2]] = IF p = <<Y, v>> THEN a ELSE Zero

AfterOneStream == last.op = "stream" /\ Len(log) = 1

(* C9 as claimed: on an all-Fluid grid with a single non-zero population,  *)
(* in direction v at a site X with X + c_v on the grid, one stream leaves  *)
(* that value in slot v of X + c_v and 0 in every other slot.              *)

C9_AheadOnGrid ==
    (AfterOneStream /\ AllFluid(tickstart[Root])) =>
        \A X \in Cells(tickstart[Root]), v \in Vels :
            (OneHot(tickstart[Root], X, v) /\ ~OffGrid(tickstart[Root], Ahead(X, v)))
                => OnlyAt(grids[Root], Ahead(X, v), v, tickstart[Root].f[X][v])

(* C9 amended: the same, for a site X with both X + c_v and X - c_v on the *)
(* grid, or on a level-0 grid with periodic boundaries.                    *)

C9_AheadAndBehindOnGrid ==
    (AfterOneStream /\ AllFluid(tickstart[Root])) =>
        \A X \in Cells(tickstart[Root]), v \in Vels :
            (/\ OneHot(tickstart[Root], X, v)
             /\ ~OffGrid(tickstart[Root], Ahead(X, v))
             /\ \/ ~OffGrid(tickstart[Root], Behind(X, v))
                \/ cfg.PERIODIC_BOUNDARIES /\ tickstart[Root].level = 0)
                => OnlyAt(grids[Root], Ahead(X, v), v, tickstart[Root].f[X][v])

\* without the periodic wrap, a population has moved one site along its
\* direction between two sites that both lie on the grid
C9_Witness ==
    /\ AfterOneStream
    /\ AllFluid(tickstart[Root])
    /\ ~(cfg.PERIODIC_BOUNDARIES /\ tickstart[Root].level = 0)
    /\ \E X \in Cells(tickstart[Root]), v \in Vels :
          /\ OneHot(tickstart[Root], X, v)
          /\ Ahead(X, v) # X
          /\ ~OffGrid(tickstart[Root], Ahead(X, v))
          /\ ~OffGrid(tickstart[Root], Behind(X, v))
          /\ grids[Root].f[Ahead(X, v)][v] = tickstart[Root].f[X][v]

----------------------------------------------------------------------------
(* C10: on a level-0, all-Fluid grid with periodic boundaries, a single    *)
(* non-zero population in a unit direction along an axis of extent L is,   *)
(* after k <= L streams, the only non-zero population and sits k sites     *)
(* further along the axis, wrapped: after L streams it is back in the same *)
(* slot of its origin site with the same value.                            *)

AxisUnit(v) == (cx(v) = 0) # (cy(v) = 0)

Extent(G, v) == IF cy(v) = 0 THEN G.N_lim ELSE G.M_lim

Wrapped(G, X, v, k) ==
    <<(X[1] + k * cx(v) + k * G.N_lim) % G.N_lim, (X[2] + k * cy(v) + k * G.M_lim) % G.M_lim>>

C10_PeriodicRoundTrip ==
    (cfg.PERIODIC_BOUNDARIES /\ tickstart[Root].level = 0 /\ AllFluid(tickstart[Root])) =>
        \A X \in Cells(tickstart[Root]), v \in Vels :
            (OneHot(tickstart[Root], X, v) /\ AxisUnit(v) /\ Len(log) <= Extent(tickstart[Root], v))
                => /\ OnlyAt(grids[Root], Wrapped(tickstart[Root], X, v, Len(log)), v,
                             tickstart[Root].f[X][v])
                   /\ Len(log) = Extent(tickstart[Root], v) => grids[Root].f = tickstart[Root].f

\* a population is back at its origin after going round an axis of MaxN sites
C10_Witness ==
    /\ cfg.PERIODIC_BOUNDARIES
    /\ tickstart[Root].level = 0
    /\ AllFluid(tickstart[Root])
    /\ tickstart[Root].N_lim = MaxN
    /\ Len(log) = MaxN
    /\ \E X \in Cells(tickstart[Root]), v \in Vels :
          /\ OneHot(tickstart[Root], X, v)
          /\ cx(v) # 0
          /\ cy(v) = 0
    /\ grids[Root].f = tickstart[Root].f

----------------------------------------------------------------------------
(* Explode followed at once by coalesce of the same region.                *)

\* every coarse site holds the same populations
UniformField(G) == \A x \in Cells(G), y \in Cells(G) : G.f[x] = G.f[y]

ExplodeThenCoalesce ==
    log = <<Event("explode", Fine), Event("coalesce", Fine)>>

AllSiblingsReceive(Fg, x) ==
    \A y \in Siblings(Fg, x) : Fg.LatTyp[y] = TransitionReceiveFromFiner

(* C11 as claimed: in a uniform coarse field, explode followed at once by  *)
(* coalesce of the same region leaves every population of a coarse site    *)
(* labelled TransitionToCoarser equal to its value before the explode.     *)

C11_RoundTrip ==
    (ExplodeThenCoalesce /\ UniformField(tickstart[Root])) =>
        \A x \in RegionCells(tickstart[Fine]) :
            tickstart[Root].LatTyp[x] = TransitionToCoarser
                => grids[Root].f[x] = tickstart[Root].f[x]

(* C11 amended: the same, for a coarse site labelled TransitionToCoarser   *)
(* whose 4 fine sites are all labelled TransitionReceiveFromFiner.         *)

C11_RoundTripReceiving ==
    (ExplodeThenCoalesce /\ UniformField(tickstart[Root])) =>
        \A x \in RegionCells(tickstart[Fine]) :
            (/\ tickstart[Root].LatTyp[x] = TransitionToCoarser
             /\ AllSiblingsReceive(tickstart[Fine], x))
                => grids[Root].f[x] = tickstart[Root].f[x]

\* the explode replaced fine values, the coarse site had a population at 0 and
\* a population that is not 0, and holds both again after the coalesce
C11_Witness ==
    /\ ExplodeThenCoalesce
    /\ UniformField(tickstart[Root])
    /\ \E x \in RegionCells(tickstart[Fine]) :
          /\ tickstart[Root].LatTyp[x] = TransitionToCoarser
          /\ AllSiblingsReceive(tickstart[Fine], x)
          /\ \E v \in Vels : tickstart[Root].f[x][v] = Zero
          /\ \E v \in Vels : tickstart[Root].f[x][v] # Zero
          /\ \A y \in Siblings(tickstart[Fine], x) :
                /\ tickstart[Fine].f[y] # grids[Fine].f[y]
                /\ grids[Fine].f[y] = tickstart[Root].f[x]
          /\ grids[Root].f[x] = tickstart[Root].f[x]

----------------------------------------------------------------------------
(* C12: on a single-level, all-Fluid, periodic lattice that starts with    *)
(* rho = 1, u = 0, f_v = w_v, with no forcing and omega = 1, rho is 1 and  *)
(* u is 0 at every site after every tick of the root kernel.               *)

AtRest(G) ==
    \A x \in Cells(G) :
        /\ G.rho[x] = One
        /\ \A d \in Dims : G.u[x][d] = Zero

StartsAtEquilibrium ==
    /\ AtRest(tickstart[Root])
    /\ \A x \in Cells(tickstart[Root]), v \in Vels : tickstart[Root].f[x][v] = w(v)
    /\ \A x \in Cells(tickstart[Root]) : tickstart[Root].LatTyp[x] = Fluid
    /\ tickstart[Root].omega = One
    /\ cfg.PERIODIC_BOUNDARIES
    /\ ~cfg.GRAVITY_ON
    /\ ~cfg.IBM_ON

C12_EquilibriumFixedPoint == StartsAtEquilibrium => AtRest(grids[Root])

\* MaxTicks ticks have been run from the equilibrium and it is still there
C12_Witness ==
    /\ StartsAtEquilibrium
    /\ Len(log) = MaxTicks
    /\ grids[Root].t = MaxTicks
    /\ AtRest(grids[Root])
    /\ grids[Root].f = tickstart[Root].f

----------------------------------------------------------------------------
(* Collision and macroscopic update of single sites.                       *)

\* a site that LBM_collide relaxes
Active(G, x) ==
    G.LatTyp[x] # CoveredByFiner /\ G.LatTyp[x] # TransitionReceiveFromFiner

PopSum(F) == RSum(F, Vels)

NoLatticeForce(G, x) == \A v \in Vels : G.force_i[x][v] = Zero

AtZeroVelocity(G, x) == \A d \in Dims : G.u[x][d] = Zero

(* C13: at an active site whose stored density is the sum of its           *)
(* populations, the equilibrium populations computed by the collision sum  *)
(* to the sum of the populations, and with no lattice force the sum of the *)
(* populations after the collision equals the sum before it.               *)

C13_CollisionConservesMass ==
    last.op = "collide" =>
        \A x \in Cells(last.pre) :
            (Active(last.pre, x) /\ last.pre.rho[x] = PopSum(last.pre.f[x])) =>
                /\ PopSum(grids[last.g].feq[x]) = PopSum(last.pre.f[x])
                /\ NoLatticeForce(last.pre, x)
                      => PopSum(grids[last.g].f[x]) = PopSum(last.pre.f[x])

\* a moving site off equilibrium has been relaxed with omega # 1: its
\* populations changed, their sum did not
C13_Witness ==
    /\ last.op = "collide"
    /\ Active(last.pre, Drawn)
    /\ last.pre.rho[Drawn] = PopSum(last.pre.f[Drawn])
    /\ last.pre.u[Drawn][0] # Zero
    /\ last.pre.u[Drawn][1] # Zero
    /\ last.pre.omega # One
    /\ NoLatticeForce(last.pre, Drawn)
    /\ grids[last.g].f[Drawn] # last.pre.f[Drawn]
    /\ PopSum(grids[last.g].f[Drawn]) = PopSum(last.pre.f[Drawn])
    /\ PopSum(grids[last.g].feq[Drawn]) = last.pre.rho[Drawn]

----------------------------------------------------------------------------
(* C14: for a site with u = 0 the equilibrium function returns rho * w_v   *)
(* for every direction v; the collision stores that value in feq.          *)

C14_EquilibriumAtRest ==
    /\ \A x \in Cells(grids[Root]), v \in Vels :
          AtZeroVelocity(grids[Root], x)
              => Equilibrium(grids[Root], x, v) = RMul(grids[Root].rho[x], w(v))
    /\ last.op = "collide" =>
          \A x \in Cells(last.pre), v \in Vels :
              (Active(last.pre, x) /\ AtZeroVelocity(last.pre, x))
                  => grids[last.g].feq[x][v] = RMul(last.pre.rho[x], w(v))

\* the collision has computed feq for a site at zero velocity with density 2
C14_Witness ==
    /\ last.op = "collide"
    /\ Active(last.pre, Drawn)
    /\ AtZeroVelocity(last.pre, Drawn)
    /\ last.pre.rho[Drawn] = R(2)
    /\ \A v \in Vels : grids[last.g].feq[Drawn][v] = RMul(R(2), w(v))
    /\ grids[last.g].feq[Drawn] # last.pre.feq[Drawn]

----------------------------------------------------------------------------
(* C15: after the bulk macroscopic update every Solid or SolidVariant site *)
(* has rho = 1 and u = 0 and every CoveredByFiner site has rho = 0 and     *)
(* u = 0, whatever its populations.                                        *)

C15_SpecialSites ==
    last.op = "macro" =>
        \A x \in Cells(grids[last.g]) :
            /\ grids[last.g].LatTyp[x] \in {Solid, SolidVariant}
                  => grids[last.g].rho[x] = One /\ AtZeroVelocity(grids[last.g], x)
            /\ grids[last.g].LatTyp[x] = CoveredByFiner
                  => grids[last.g].rho[x] = Zero /\ AtZeroVelocity(grids[last.g], x)

\* a SolidVariant site that stored density 2 and a velocity, with populations
\* that sum to neither, now has density 1 and no velocity
C15_Witness ==
    /\ last.op = "macro"
    /\ last.pre.LatTyp[Drawn] = SolidVariant
    /\ last.pre.rho[Drawn] = R(2)
    /\ ~AtZeroVelocity(last.pre, Drawn)
    /\ PopSum(last.pre.f[Drawn]) # One
    /\ grids[last.g].rho[Drawn] = One
    /\ AtZeroVelocity(grids[last.g], Drawn)

----------------------------------------------------------------------------
(* C17: the collision leaves the populations of every CoveredByFiner and   *)
(* TransitionReceiveFromFiner site as they were, and at every site it      *)
(* leaves density, velocity, forces and label as they were.                *)

C17_CollisionFrame ==
    last.op = "collide" =>
        /\ \A x \in Cells(last.pre) :
              ~Active(last.pre, x) => grids[last.g].f[x] = last.pre.f[x]
        /\ grids[last.g].rho = last.pre.rho
        /\ grids[last.g].u = last.pre.u
        /\ grids[last.g].force_i = last.pre.force_i
        /\ grids[last.g].force_xyz = last.pre.force_xyz
        /\ grids[last.g].LatTyp = last.pre.LatTyp

\* a TransitionReceiveFromFiner site off equilibrium, with a lattice force, kept
\* its populations through the collision
C17_Witness ==
    /\ last.op = "collide"
    /\ last.pre.LatTyp[Drawn] = TransitionReceiveFromFiner
    /\ \E v \in Vels : last.pre.f[Drawn][v] # Equilibrium(last.pre, Drawn, v)
    /\ ~NoLatticeForce(last.pre, Drawn)
    /\ grids[last.g].f[Drawn] = last.pre.f[Drawn]

----------------------------------------------------------------------------
(* C16: on a level that ticks from t = 0 without predictor-corrector, the  *)
(* stored rho_timeav of a site after the macroscopic update of tick t is   *)
(* the arithmetic mean of the t + 1 densities the update produced at ticks *)
(* 0 .. t; likewise ui_timeav for each velocity component and uiuj_timeav  *)
(* for each product u_a * u_b; equal inputs v give the average v.          *)

\* the grid as the i-th call of the kernel left it
After(i) == log[i][2]

\* avg is the arithmetic mean of value(1), ..., value(n)
IsMean(avg, value(_), n) ==
    /\ RMul(R(n), avg) = RSum([i \in 1 .. n |-> value(i)], 1 .. n)
    /\ \A v \in {value(1)} : (\A i \in 1 .. n : value(i) = v) => avg = v

TicksFromZero == tickstart[Root].t = 0 /\ ~cfg.IBM_ON /\ Len(log) >= 1

C16_RunningMean ==
    TicksFromZero =>
        \A x \in Cells(grids[Root]) :
            /\ LET rho_at(i) == After(i).rho[x]
               IN  IsMean(grids[Root].rho_timeav[x], rho_at, Len(log))
            /\ \A d \in Dims :
                  LET u_at(i) == After(i).u[x][d]
                  IN  IsMean(grids[Root].ui_timeav[x][d], u_at, Len(log))
            /\ \A n \in 1 .. Len(UiUjPairs) :
                  LET uu_at(i) == RMul(After(i).u[x][UiUjPairs[n][1]],
                                       After(i).u[x][UiUjPairs[n][2]])
                  IN  IsMean(grids[Root].uiuj_timeav[x][n], uu_at, Len(log))

\* MaxTicks ticks from t = 0 gave some site densities that are not all equal,
\* and its average is none of them
C16_Witness ==
    /\ TicksFromZero
    /\ Len(log) = MaxTicks
    /\ grids[Root].t = MaxTicks
    /\ \E x \in Cells(grids[Root]) :
          /\ \A i \in 1 .. Len(log) :
                IsFinite(After(i).rho[x]) /\ After(i).rho[x] # grids[Root].rho_timeav[x]
          /\ \E d \in Dims : \E i \in 1 .. Len(log) : After(i).u[x][d] # Zero

----------------------------------------------------------------------------
(* C18 as claimed: for every step count T and initial counter t0 with      *)
(* 0 <= t0 <= T, the time loop calls the root kernel exactly T - t0 times, *)
(* Grids.t never exceeds T, and the loop is left with Grids.t = T.         *)

C18_LoopRunsToT ==
    /\ grids[Root].t <= cfg.T
    /\ mainpc = "done" =>
          /\ grids[Root].t = cfg.T
          /\ Len(log) = cfg.T - tickstart[Root].t

----------------------------------------------------------------------------
(* Streaming off the lattice.                                              *)

OffDomain(G, X, v) == Ahead(X, v) \notin Cells(G)

\* the wrap is used: periodic boundaries, level 0, source and wrapped site Fluid
WrapApplies(G, X, v) ==
    /\ cfg.PERIODIC_BOUNDARIES
    /\ G.level = 0
    /\ G.LatTyp[X] = Fluid
    /\ G.LatTyp[Wrapped(G, X, v, 1)] = Fluid

\* G0 before and G1 after the stream; the populations of G0 are all different
OffDomainRule(G0, G1, X, v) ==
    IF WrapApplies(G0, X, v)
    THEN G1.f[Wrapped(G0, X, v, 1)][v] = G0.f[X][v]
    ELSE /\ \A Y \in Cells(G0) \ {X}, s \in Vels : G1.f[Y][s] # G0.f[X][v]
         /\ G1.f[X][getOpposite(v)] = G0.f[X][getOpposite(v)]

(* C19 as claimed: a population whose destination X + c_v is off the       *)
(* lattice goes to the wrapped site, same direction, if and only if        *)
(* periodic boundaries are enabled, the level is 0 and both X and the      *)
(* wrapped site are Fluid; in every other case no other site receives it   *)
(* and slot opp(v) of X holds after the stream the value it held before.   *)

C19_OffDomain ==
    AfterOneStream =>
        \A X \in Cells(tickstart[Root]), v \in Vels :
            OffDomain(tickstart[Root], X, v)
                => OffDomainRule(tickstart[Root], grids[Root], X, v)

(* C19 amended: the same, for every source site X that is not             *)
(* CoveredByFiner.                                                         *)

C19_OffDomainStreamingSource ==
    AfterOneStream =>
        \A X \in Cells(tickstart[Root]), v \in Vels :
            (OffDomain(tickstart[Root], X, v) /\ tickstart[Root].LatTyp[X] # CoveredByFiner)
                => OffDomainRule(tickstart[Root], grids[Root], X, v)

\* one stream wrapped a population of a Fluid site and kept, at a site that is
\* neither Fluid nor CoveredByFiner, the population opposite to one that left
C19_Witness ==
    /\ AfterOneStream
    /\ \E X \in Cells(tickstart[Root]), v \in Vels :
          /\ OffDomain(tickstart[Root], X, v)
          /\ WrapApplies(tickstart[Root], X, v)
          /\ grids[Root].f[Wrapped(tickstart[Root], X, v, 1)][v] = tickstart[Root].f[X][v]
    /\ \E X \in Cells(tickstart[Root]), v \in Vels :
          /\ OffDomain(tickstart[Root], X, v)
          /\ tickstart[Root].LatTyp[X] \notin {Fluid, CoveredByFiner}
          /\ grids[Root].f[X][getOpposite(v)] = tickstart[Root].f[X][getOpposite(v)]
          /\ \A Y \in Cells(tickstart[Root]), s \in Vels :
                grids[Root].f[Y][s] # tickstart[Root].f[X][v]

----------------------------------------------------------------------------
(* C20: when source X and destination X + c_v are both on the lattice and  *)
(* both TransitionToCoarser, nothing is transferred, and after the stream  *)
(* slot v of the destination holds 0: neither the value it held before nor *)
(* the value of the source.                                                *)

BothToCoarser(G, X, v) ==
    /\ Ahead(X, v) \in Cells(G)
    /\ G.LatTyp[X] = TransitionToCoarser
    /\ G.LatTyp[Ahead(X, v)] = TransitionToCoarser

C20_ToCoarserPairLeavesZero ==
    AfterOneStream =>
        \A X \in Cells(tickstart[Root]), v \in Vels :
            BothToCoarser(tickstart[Root], X, v) =>
                /\ grids[Root].f[Ahead(X, v)][v] = Zero
                /\ grids[Root].f[Ahead(X, v)][v] # tickstart[Root].f[Ahead(X, v)][v]
                /\ \A s \in Vels : grids[Root].f[Ahead(X, v)][s] # tickstart[Root].f[X][v]

\* two neighbouring TransitionToCoarser sites: the slot between them held a
\* value that was not 0 and holds 0 after the stream
C20_Witness ==
    /\ AfterOneStream
    /\ \E X \in Cells(tickstart[Root]), v \in Vels :
          /\ Ahead(X, v) # X
          /\ BothToCoarser(tickstart[Root], X, v)
          /\ tickstart[Root].f[Ahead(X, v)][v] # Zero
          /\ tickstart[Root].f[X][v] # Zero
          /\ grids[Root].f[Ahead(X, v)][v] = Zero

----------------------------------------------------------------------------
(* C21: a CoveredByFiner source site writes nothing in any direction,      *)
(* whether its destination is on the lattice, off it, or reached by the    *)
(* periodic wrap: after the stream no slot of any site holds a value that  *)
(* was a population of a CoveredByFiner site.                              *)

HoldsNowhere(G, a) == \A Y \in Cells(G), s \in Vels : G.f[Y][s] # a

C21_CoveredSourceWritesNothing ==
    AfterOneStream =>
        \A X \in Cells(tickstart[Root]), v \in Vels :
            tickstart[Root].LatTyp[X] = CoveredByFiner
                => HoldsNowhere(grids[Root], tickstart[Root].f[X][v])

\* a CoveredByFiner site of a periodic level-0 lattice with Fluid sites ahead of
\* it on the lattice and across the edge; the slots ahead hold 0 after the
\* stream and none of its populations is found anywhere
C21_Witness ==
    /\ AfterOneStream
    /\ cfg.PERIODIC_BOUNDARIES
    /\ tickstart[Root].level = 0
    /\ \E X \in Cells(tickstart[Root]), v1, v2 \in Vels :
          /\ tickstart[Root].LatTyp[X] = CoveredByFiner
          /\ ~OffDomain(tickstart[Root], X, v1) /\ Ahead(X, v1) # X
          /\ tickstart[Root].LatTyp[Ahead(X, v1)] = Fluid
          /\ grids[Root].f[Ahead(X, v1)][v1] = Zero
          /\ OffDomain(tickstart[Root], X, v2)
          /\ tickstart[Root].LatTyp[Wrapped(tickstart[Root], X, v2, 1)] = Fluid
          /\ \A v \in Vels :
                /\ tickstart[Root].f[X][v] # Zero
                /\ HoldsNowhere(grids[Root], tickstart[Root].f[X][v])

----------------------------------------------------------------------------
(* C22: outside the corrector pass, when a tick of a level starts (the     *)
(* second tick of a refined level included, with gravity or the immersed   *)
(* boundary enabled) the lattice force and the Cartesian force of that     *)
(* level are 0 at every site.                                              *)

\* the activation on top of the stack belongs to the corrector pass
InCorrector == \E i \in 1 .. (Len(stack) - 1) : stack[i].pc = "move"

ForcesZero(G) == G.force_i = ZeroForce_i(G) /\ G.force_xyz = ZeroForce_xyz(G)

C22_ForcesZeroAtTickStart ==
    (At("forcegrid") /\ ~InCorrector) => ForcesZero(grids[Top.g])

----------------------------------------------------------------------------
(* C23: with predictor-corrector on a hierarchy with refined levels, when  *)
(* the corrector activation starts the populations, density, velocity and  *)
(* tick counter of every sub-grid are the values they had when the         *)
(* external tick began, and an external tick advances the counter of a     *)
(* level-L grid by 2^L.                                                    *)

SameFlowState(G, H) == G.f = H.f /\ G.rho = H.rho /\ G.u = H.u /\ G.t = H.t

C23_CorrectorRestoresChildren ==
    /\ CorrectorStarts => \A g \in NonRoot : SameFlowState(grids[g], tickstart[g])
    /\ (cfg.IBM_ON /\ ExternalTickDone) =>
          \A g \in GridIds : grids[g].t = tickstart[g].t + Pow2(Level(g))

----------------------------------------------------------------------------
(* C24: with predictor-corrector the running averages receive one sample   *)
(* per external tick: after external tick n the root's rho_timeav of a     *)
(* site is the mean of the densities the corrector produced in ticks       *)
(* 0 .. n, the predictor's densities having no part in it.  Stated tick by *)
(* tick from t = 0: (n + 1) times the average after tick n is n times the  *)
(* average after tick n - 1 plus the corrector's density of tick n.        *)

OneSample(avg0, avg1, n, value) == RMul(avg1, R(n + 1)) = RAdd(RMul(avg0, R(n)), value)

C24_OneSamplePerExternalTick ==
    (cfg.IBM_ON /\ ExternalTickDone) =>
        \A x \in Cells(grids[Root]) :
            OneSample(tickstart[Root].rho_timeav[x], grids[Root].rho_timeav[x],
                      tickstart[Root].t, grids[Root].rho[x])

----------------------------------------------------------------------------
(* C25: the result of a collision sweep and of a streaming sweep does not  *)
(* depend on the order in which sites and directions are visited; in a     *)
(* streaming sweep no slot of the new buffer is assigned different values  *)
(* by two (site, direction) pairs, whatever the labels of the sites.       *)

\* all assignments <<site, direction, value>> a streaming sweep of G makes
StreamWrites(G) == UNION {StreamWrite(G, p[1], p[2]) : p \in Slots(G)}

NoConflict(G) ==
    \A a, b \in StreamWrites(G) : (a[1] = b[1] /\ a[2] = b[2]) => a[3] = b[3]

AfterOneCollide == last.op = "collide" /\ Len(log) = 1

C25_SweepOrderIndependent ==
    /\ AfterOneCollide => grids[Root] = LBM_collide(tickstart[Root])
    /\ AfterOneStream =>
          /\ NoConflict(tickstart[Root])
          /\ grids[Root] = LBM_stream(tickstart[Root])

\* a streaming sweep run back to front over a periodic lattice with a wrapping
\* Fluid site, a site that retains and receives from a neighbour, and a
\* do-nothing inlet that keeps its populations
C25_Witness ==
    /\ AfterOneStream
    /\ log = <<Event("reverse", Root)>>
    /\ cfg.PERIODIC_BOUNDARIES /\ cfg.INLET_DO_NOTHING
    /\ grids[Root].f # tickstart[Root].f
    /\ \E X, Y, Z \in Cells(tickstart[Root]), v1, v2, v3 \in Vels :
          /\ OffDomain(tickstart[Root], X, v1) /\ WrapApplies(tickstart[Root], X, v1)
          /\ OffDomain(tickstart[Root], Y, v2) /\ tickstart[Root].LatTyp[Y] = TransitionToCoarser
          /\ grids[Root].f[Y][getOpposite(v2)] = tickstart[Root].f[Y][getOpposite(v2)]
          /\ Behind(Y, v3) \in Cells(tickstart[Root]) \ {Y}
          /\ grids[Root].f[Y][v3] = tickstart[Root].f[Behind(Y, v3)][v3]
          /\ tickstart[Root].LatTyp[Z] = DoNothingInlet
          /\ grids[Root].f[Z] = tickstart[Root].f[Z]

----------------------------------------------------------------------------
(* C26: LBM_explode changes nothing on the parent grid and only the        *)
(* populations f on the child; LBM_coalesce changes nothing on the child   *)
(* and, on the parent, only populations f of sites inside the region's     *)
(* coarse limits; neither changes a grid of another region; and they are   *)
(* the only operations that change a grid other than the one the kernel    *)
(* is running on or use another grid's values to do so.                    *)

\* H is G but for the populations f
OnlyFChanged(G, H) == [H EXCEPT !.f = G.f] = G

ExplodeFrame ==
    LET child == Append(Top.g, Top.reg)
    IN  \A g \in GridIds :
            IF g = child THEN OnlyFChanged(grids[g], grids'[g])
            ELSE grids'[g] = grids[g]

CoalesceFrame ==
    LET child == Append(Top.g, Top.reg)
    IN  \A g \in GridIds :
            IF g = Top.g
            THEN /\ OnlyFChanged(grids[g], grids'[g])
                 /\ \A x \in Cells(grids[g]) \ RegionCells(grids[child]) :
                       grids'[g].f[x] = grids[g].f[x]
            ELSE grids'[g] = grids[g]

OwnGridFrame == \A g \in GridIds \ {Top.g} : grids'[g] = grids[g]

CouplingFrame ==
    /\ At("explode") => ExplodeFrame
    /\ At("coalesce") => CoalesceFrame
    /\ (Running /\ ~At("explode") /\ ~At("coalesce")) => OwnGridFrame

C26_CouplingWritesOneSide == [][CouplingFrame]_vars

\* a coalesce has just changed populations of the parent, after an explosion
\* into the same sub-grid
C26_Witness ==
    /\ last.op = "coalesce"
    /\ grids[last.g].f # last.pre.f
    /\ \E r \in 0 .. (Regions(last.g) - 1) :
          /\ Where(Event("explode", Append(last.g, r))) # {}
          /\ log[Len(log)] = Event("coalesce", Append(last.g, r))

----------------------------------------------------------------------------
(* C27: LBM_macro(i, j, k) changes only rho and u of site (i, j, k): the   *)
(* time averages, the populations and rho and u of every other site are    *)
(* left as they were, and the rho and u it stores for the site are those   *)
(* the bulk LBM_macro stores from the same populations, forces and label.  *)

AfterMacroSite == last.op = "macro_site" /\ Len(log) = 1

\* the site the overload was called for
MacroSite == log[1][2]

----------------------------------------------------------------------------
(* C28: when the populations of a site that is neither CoveredByFiner nor  *)
(* Solid/SolidVariant sum to 0, LBM_macro stores rho = 0 and a velocity    *)
(* that is not a finite number for it, goes on to update the site's time   *)
(* averages with that velocity, and completes the sweep: what it stores    *)
(* for the other sites is what it stores when this site is healthy.        *)

Computed(G, x) == G.LatTyp[x] \notin {CoveredByFiner, Solid, SolidVariant}

NoDensity(G, x) == Computed(G, x) /\ PopSum(G.f[x]) = Zero

\* G with the populations of site x replaced by the weights (rho = 1 at rest)
Healthy(G, x) == [G EXCEPT !.f[x] = [v \in Vels |-> w(v)]]

SameSite(G, H, y) ==
    /\ G.rho[y] = H.rho[y] /\ G.u[y] = H.u[y]
    /\ G.rho_timeav[y] = H.rho_timeav[y]
    /\ G.ui_timeav[y] = H.ui_timeav[y]
    /\ G.uiuj_timeav[y] = H.uiuj_timeav[y]

C28_ZeroDensityUnguarded ==
    last.op = "macro" =>
        \A x \in Cells(last.pre) :
            NoDensity(last.pre, x) =>
                /\ grids[Root].rho[x] = Zero
                /\ \A d \in Dims : ~IsFinite(grids[Root].u[x][d])
                /\ grids[Root].rho_timeav[x]
                      = TimeAv(last.pre.rho_timeav[x], last.pre.t, Zero)
                /\ \A d \in Dims : ~IsFinite(grids[Root].ui_timeav[x][d])
                /\ \A n \in 1 .. Len(UiUjPairs) : ~IsFinite(grids[Root].uiuj_timeav[x][n])
                /\ \A y \in Cells(last.pre) \ {x} :
                      SameSite(grids[Root], LBM_macro(Healthy(last.pre, x)), y)

\* a Fluid site whose populations cancel without all being 0, beside a site at
\* rest that comes out with density 1 and velocity 0
C28_Witness ==
    /\ last.op = "macro"
    /\ last.pre.LatTyp[Drawn] = Fluid
    /\ NoDensity(last.pre, Drawn)
    /\ \E v \in Vels : last.pre.f[Drawn][v] # Zero
    /\ ~IsFinite(grids[Root].u[Drawn][0])
    /\ ~IsFinite(grids[Root].ui_timeav[Drawn][0])
    /\ \E y \in Cells(last.pre) \ {Drawn} :
          grids[Root].rho[y] = One /\ AtZeroVelocity(grids[Root], y)

----------------------------------------------------------------------------
(* C29: on a level-0 lattice whose sites are all Fluid, with periodic      *)
(* boundaries, LBM_stream permutes the population slots: for each          *)
(* direction v the values of slot v over all sites are the same multiset   *)
(* before and after, and so is the total of all populations.               *)

\* number of sites of G that hold value a in slot v
Count(G, v, a) == Cardinality({x \in Cells(G) : G.f[x][v] = a})

SameMultiset(G, H, v) ==
    \A a \in {G.f[x][v] : x \in Cells(G)} \cup {H.f[x][v] : x \in Cells(H)} :
        Count(G, v, a) = Count(H, v, a)

Total(G) == RSum([x \in Cells(G) |-> PopSum(G.f[x])], Cells(G))

PeriodicFluid(G) == cfg.PERIODIC_BOUNDARIES /\ G.level = 0 /\ AllFluid(G)

C29_PeriodicStreamPermutes ==
    (last.op = "stream" /\ PeriodicFluid(last.pre)) =>
        /\ \A v \in Vels : SameMultiset(last.pre, grids[Root], v)
        /\ Total(grids[Root]) = Total(last.pre)

\* all populations different: every one of them is found after the stream, in
\* its own direction, none at the site it started from but the one at rest
C29_Witness ==
    /\ AfterOneStream
    /\ PeriodicFluid(last.pre)
    /\ \A x, y \in Cells(last.pre), v, s \in Vels :
          (x # y \/ v # s) => last.pre.f[x][v] # last.pre.f[y][s]
    /\ \A x \in Cells(last.pre), v \in Vels :
          /\ \E y \in Cells(last.pre) : grids[Root].f[y][v] = last.pre.f[x][v]
          /\ (Ahead(x, v) # x) => grids[Root].f[x][v] # last.pre.f[x][v]

----------------------------------------------------------------------------
(* C30: every call of the kernel on the root returns.  The recursion into  *)
(* sub-grids goes down at most NumLev levels; an activation on a refined   *)
(* level runs its loop body exactly twice and one on the root exactly      *)
(* once; a predictor activation launches exactly one corrector activation, *)
(* with IBM_flag false, which launches no further predictor or corrector.  *)

\* what one activation on grid g writes to the log, sub-grids left out
Activation(g) ==
    IF g # Root
    THEN <<Event("enter", g), Event("t++", g), Event("t++", g), Event("return", g)>>
    ELSE IF cfg.IBM_ON
    THEN <<Event("enter", g), Event("t++", g), Event("corrector", g),
           Event("enter", g), Event("t++", g), Event("return", g), Event("return", g)>>
    ELSE <<Event("enter", g), Event("t++", g), Event("return", g)>>

ActivationEvents(g) ==
    Only({Event("enter", g), Event("t++", g), Event("corrector", g), Event("return", g)})

MaxDepth == NumLev + 1 + (IF cfg.IBM_ON THEN 1 ELSE 0)

KernelBounded ==
    /\ Len(stack) <= MaxDepth
    /\ \A i \in 1 .. Len(stack) : Level(stack[i].g) <= NumLev
    /\ \A i \in 1 .. (Len(stack) - 1) :
          Level(stack[i + 1].g) = Level(stack[i].g) + 1 \/ stack[i].pc = "move"
    /\ \A g \in GridIds : Cyclic(ActivationEvents(g), Activation(g))
    /\ InCorrector => ~Top.IBM_flag
    /\ ExternalTickDone =>
          /\ ActivationEvents(Root) = Activation(Root)
          /\ \A g \in NonRoot : Len(ActivationEvents(g)) % Len(Activation(g)) = 0

C30_KernelTerminates ==
    /\ []KernelBounded
    /\ (mainpc = "running") ~> (mainpc = "check")

\* a predictor-corrector call has returned to main after activations on the
\* deepest level
C30_Witness ==
    /\ ExternalTickDone
    /\ cfg.IBM_ON
    /\ Where(Event("corrector", Root)) # {}
    /\ \E g \in NonRoot : Level(g) = NumLev /\ Where(Event("return", g)) # {}

====
